---- MODULE Spec2Model ----
(***************************************************************************)
(* Skill Tree Planner: the dependency and allocation engine.               *)
(*                                                                         *)
(* app_state mirrors the application state object (project.settings,       *)
(* project.trees with their point_pool, nodes and connections, and         *)
(* ui_state).  Arrays are sequences, so array order (which the cascade     *)
(* loop and find/findIndex depend on) is kept.  findIndex's -1 is index 0  *)
(* of the 1-based sequences.                                               *)
(***************************************************************************)
EXTENDS Integers, Sequences, FiniteSets, TLC

VARIABLES app_state, last

vars == <<app_state, last>>

----------------------------------------------------------------------------
(* Bounds of the model *)

\* largest max_rank given to a node of the initial trees
MaxRank == 2
\* a point budget small enough to run out
SmallTotal == 3
\* passes after which the cascade loop is declared not to terminate
CascadeFuel == 6

\* default point budget of a new tree
DefaultTotal == 20

----------------------------------------------------------------------------
(* Generic helpers *)

Min(a, b) == IF a < b THEN a ELSE b

Range(s) == {s[i] : i \in 1..Len(s)}

\* Array.prototype.findIndex: first index whose element has the id, 0 if none
FirstIndex(s, id) ==
    IF \E i \in 1..Len(s) : s[i].id = id
    THEN CHOOSE i \in 1..Len(s) : s[i].id = id /\ \A j \in 1..(i - 1) : s[j].id # id
    ELSE 0

----------------------------------------------------------------------------
(* state.js *)

create_tree(id, name) ==
    [id |-> id,
     point_pool |-> [total |-> DefaultTotal, spent |-> 0],
     nodes |-> <<>>,
     connections |-> <<>>]

create_node(id) ==
    [id |-> id,
     max_rank |-> 1,
     current_rank |-> 0,
     cost_per_rank |-> <<1>>,
     prerequisite_logic |-> "AND",
     prerequisite_threshold |-> 1]

create_connection(id, from_node_id, to_node_id) ==
    [id |-> id,
     from_node_id |-> from_node_id,
     to_node_id |-> to_node_id,
     required_rank |-> 1,
     logic |-> "none"]

get_tree_index(state, tree_id) == FirstIndex(state.project.trees, tree_id)

get_node_index(tree, node_id) == FirstIndex(tree.nodes, node_id)

\* find_tree/find_node return null when the index is 0; callers test
\* has_tree/has_node before they use the record
has_tree(state, tree_id) == get_tree_index(state, tree_id) # 0

find_tree(state, tree_id) == state.project.trees[get_tree_index(state, tree_id)]

has_node(state, tree_id, node_id) ==
    /\ has_tree(state, tree_id)
    /\ get_node_index(find_tree(state, tree_id), node_id) # 0

find_node(state, tree_id, node_id) ==
    LET tree == find_tree(state, tree_id)
    IN  tree.nodes[get_node_index(tree, node_id)]

----------------------------------------------------------------------------
(* validation engine: prerequisites and status *)

\* Array.prototype.filter over the connections, order kept
RECURSIVE FilterSeq(_, _)
FilterSeq(s, keep) ==
    IF s = <<>> THEN <<>>
    ELSE IF Head(s) \in keep THEN <<Head(s)>> \o FilterSeq(Tail(s), keep)
         ELSE FilterSeq(Tail(s), keep)

incoming_connections(tree, node_id) ==
    FilterSeq(tree.connections, {c \in Range(tree.connections) : c.to_node_id = node_id})

outgoing_connections(tree, node_id) ==
    FilterSeq(tree.connections, {c \in Range(tree.connections) : c.from_node_id = node_id})

\* node.prerequisite_logic || "AND"
logic_or_default(node) ==
    IF node.prerequisite_logic = "" THEN "AND" ELSE node.prerequisite_logic

\* node.prerequisite_threshold || 1
threshold_always_default(node) == 1

threshold_or_default(node) ==
    IF node.prerequisite_threshold = 0 THEN 1 ELSE node.prerequisite_threshold

\* the SUM branch's loop: ranks of the sources that exist
RECURSIVE sum_source_ranks(_, _, _)
sum_source_ranks(state, tree_id, incoming) ==
    IF incoming = <<>> THEN 0
    ELSE (IF has_node(state, tree_id, Head(incoming).from_node_id)
          THEN find_node(state, tree_id, Head(incoming).from_node_id).current_rank
          ELSE 0)
         + sum_source_ranks(state, tree_id, Tail(incoming))

RECURSIVE check_prerequisites(_, _, _)

\* line 243: the per-connection test of AND and OR
connection_rank_met_strictly(from_node, connection) ==
    from_node.current_rank > connection.required_rank

connection_rank_met(from_node, connection) ==
    from_node.current_rank >= connection.required_rank

\* line 237: the target decides as a group
target_uses_sum_never(to_node) == FALSE

target_uses_sum(to_node) == to_node.prerequisite_logic = "SUM"

is_connection_satisfied(state, tree_id, connection) ==
    IF ~has_node(state, tree_id, connection.to_node_id) THEN FALSE
    ELSE IF ~has_node(state, tree_id, connection.from_node_id) THEN FALSE
    ELSE IF target_uses_sum(find_node(state, tree_id, connection.to_node_id))
         THEN check_prerequisites(state, tree_id, connection.to_node_id)
         ELSE connection_rank_met(find_node(state, tree_id, connection.from_node_id),
                                  connection)

check_prerequisites(state, tree_id, node_id) ==
    IF ~has_tree(state, tree_id) THEN FALSE
    ELSE
      LET tree == find_tree(state, tree_id)
          incoming == incoming_connections(tree, node_id)
      IN  IF Len(incoming) = 0 THEN TRUE
          ELSE IF ~has_node(state, tree_id, node_id) THEN FALSE
          ELSE
            LET node == find_node(state, tree_id, node_id)
                logic == logic_or_default(node)
            IN  IF logic = "AND"
                THEN \A i \in 1..Len(incoming) :
                        is_connection_satisfied(state, tree_id, incoming[i])
                ELSE IF logic = "OR"
                THEN \E i \in 1..Len(incoming) :
                        is_connection_satisfied(state, tree_id, incoming[i])
                ELSE IF logic = "SUM"
                THEN sum_source_ranks(state, tree_id, incoming)
                        >= threshold_or_default(node)
                ELSE TRUE

\* the rank tests placed before the prerequisite test
get_node_status_rank_first(state, tree_id, node_id) ==
    IF ~has_tree(state, tree_id) THEN "invalid"
    ELSE IF ~has_node(state, tree_id, node_id) THEN "invalid"
    ELSE
      LET node == find_node(state, tree_id, node_id)
      IN  IF node.current_rank >= node.max_rank THEN "maxed"
          ELSE IF ~check_prerequisites(state, tree_id, node_id) THEN "locked"
          ELSE IF node.current_rank = 0 THEN "unlockable"
          ELSE "active"

get_node_status(state, tree_id, node_id) ==
    IF ~has_tree(state, tree_id) THEN "invalid"
    ELSE IF ~has_node(state, tree_id, node_id) THEN "invalid"
    ELSE
      LET node == find_node(state, tree_id, node_id)
      IN  IF ~check_prerequisites(state, tree_id, node_id) THEN "locked"
          ELSE IF node.current_rank = 0 THEN "unlockable"
          ELSE IF node.current_rank >= node.max_rank THEN "maxed"
          ELSE "active"

----------------------------------------------------------------------------
(* validation engine: allocation and refund guards *)

get_allocation_cost(node) ==
    node.cost_per_rank[Min(node.current_rank, Len(node.cost_per_rank) - 1) + 1]

\* line 343: the play-mode test for a locked node
status_is_locked_never(status) == FALSE

status_is_locked(status) == status = "locked"

can_allocate_point(state, tree_id, node_id) ==
    IF ~has_tree(state, tree_id)
    THEN [can_allocate |-> FALSE, reason |-> "Tree not found"]
    ELSE IF ~has_node(state, tree_id, node_id)
    THEN [can_allocate |-> FALSE, reason |-> "Node not found"]
    ELSE
      LET tree == find_tree(state, tree_id)
          node == find_node(state, tree_id, node_id)
          cost == get_allocation_cost(node)
          available == tree.point_pool.total - tree.point_pool.spent
          status == get_node_status(state, tree_id, node_id)
      IN  IF state.ui_state.mode = "edit"
          THEN IF node.current_rank >= node.max_rank
               THEN [can_allocate |-> FALSE, reason |-> "Maximum rank reached"]
               ELSE IF available < cost
               THEN [can_allocate |-> FALSE, reason |-> "Not enough points"]
               ELSE [can_allocate |-> TRUE, reason |-> "null"]
          ELSE IF status_is_locked(status)
          THEN [can_allocate |-> FALSE, reason |-> "Prerequisites not met"]
          ELSE IF status = "maxed"
          THEN [can_allocate |-> FALSE, reason |-> "Maximum rank reached"]
          ELSE IF status = "invalid"
          THEN [can_allocate |-> FALSE, reason |-> "Invalid node state"]
          ELSE IF available < cost
          THEN [can_allocate |-> FALSE, reason |-> "Not enough points"]
          ELSE [can_allocate |-> TRUE, reason |-> "null"]

has_alternative_path(state, tree_id, node_id, excluded_node_id) ==
    IF ~has_tree(state, tree_id) THEN FALSE
    ELSE
      LET tree == find_tree(state, tree_id)
      IN  \E c \in Range(tree.connections) :
             /\ c.to_node_id = node_id
             /\ c.from_node_id # excluded_node_id
             /\ c.logic = "OR"
             /\ is_connection_satisfied(state, tree_id, c)

\* the ids pushed by the loop over the outgoing connections, in order
RECURSIVE blocking_of(_, _, _, _, _)
blocking_of(state, tree_id, node_id, new_rank, outgoing) ==
    IF outgoing = <<>> THEN <<>>
    ELSE
      LET conn == Head(outgoing)
          rest == blocking_of(state, tree_id, node_id, new_rank, Tail(outgoing))
      IN  IF /\ new_rank < conn.required_rank
             /\ has_node(state, tree_id, conn.to_node_id)
             /\ find_node(state, tree_id, conn.to_node_id).current_rank > 0
             /\ ~has_alternative_path(state, tree_id, conn.to_node_id, node_id)
          THEN <<conn.to_node_id>> \o rest
          ELSE rest

find_blocking_dependents(state, tree_id, node_id, new_rank) ==
    IF ~has_tree(state, tree_id) THEN <<>>
    ELSE blocking_of(state, tree_id, node_id, new_rank,
                     outgoing_connections(find_tree(state, tree_id), node_id))

\* lines 452-460: the answer when the refund will cascade to dependents
cascade_report_blocks(blocking_dependents) ==
    [can_refund |-> FALSE, reason |-> "Will cascade to dependent nodes",
     affected_nodes |-> blocking_dependents]

cascade_report(blocking_dependents) ==
    [can_refund |-> TRUE, reason |-> "Will cascade to dependent nodes",
     affected_nodes |-> blocking_dependents]

can_refund_point(state, tree_id, node_id) ==
    IF ~state.project.settings.allow_refunds
    THEN [can_refund |-> FALSE, reason |-> "Refunds are disabled", affected_nodes |-> <<>>]
    ELSE IF ~has_tree(state, tree_id)
    THEN [can_refund |-> FALSE, reason |-> "Tree not found", affected_nodes |-> <<>>]
    ELSE IF ~has_node(state, tree_id, node_id)
    THEN [can_refund |-> FALSE, reason |-> "Node not found", affected_nodes |-> <<>>]
    ELSE
      LET node == find_node(state, tree_id, node_id)
          blocking_dependents ==
              find_blocking_dependents(state, tree_id, node_id, node.current_rank - 1)
      IN  IF node.current_rank <= 0
          THEN [can_refund |-> FALSE, reason |-> "No points allocated",
                affected_nodes |-> <<>>]
          ELSE IF state.ui_state.mode = "edit"
          THEN [can_refund |-> TRUE, reason |-> "null", affected_nodes |-> <<>>]
          ELSE IF Len(blocking_dependents) > 0
          THEN cascade_report(blocking_dependents)
          ELSE [can_refund |-> TRUE, reason |-> "null", affected_nodes |-> <<>>]

\* the per-node inner loop of calculate_spent_points: i = 0 .. current_rank-1
RECURSIVE spent_on_ranks(_, _)
spent_on_ranks(node, ranks) ==
    IF ranks <= 0 THEN 0
    ELSE spent_on_ranks(node, ranks - 1)
         + node.cost_per_rank[Min(ranks - 1, Len(node.cost_per_rank) - 1) + 1]

RECURSIVE spent_of_nodes(_)
spent_of_nodes(nodes) ==
    IF nodes = <<>> THEN 0
    ELSE spent_on_ranks(Head(nodes), Head(nodes).current_rank) + spent_of_nodes(Tail(nodes))

calculate_spent_points(tree) == spent_of_nodes(tree.nodes)

\* the point-pool part of validate_tree
warn_point_pool_mismatch(state, tree_id) ==
    /\ has_tree(state, tree_id)
    /\ calculate_spent_points(find_tree(state, tree_id))
          # find_tree(state, tree_id).point_pool.spent

----------------------------------------------------------------------------
(* actions.js: the point allocation actions *)

\* the tree written to every slot of project.trees
with_tree_everywhere(state, tree_index, tree) ==
    [state EXCEPT !.project.trees = [i \in 1..Len(@) |-> tree]]

\* new_state.project.trees[tree_index] = tree
with_tree(state, tree_index, tree) ==
    [state EXCEPT !.project.trees[tree_index] = tree]

\* tree.nodes[node_index].current_rank = rank; tree.point_pool.spent = spent
with_rank_and_spent(tree, node_index, rank, spent) ==
    [tree EXCEPT !.nodes[node_index].current_rank = rank,
                 !.point_pool.spent = spent]

\* line 324: the node is already at its rank ceiling
allocate_is_maxed_off_by_one(node) == node.current_rank > node.max_rank

allocate_is_maxed(node) == node.current_rank >= node.max_rank

\* lines 329-330: the cost of the next rank
allocate_cost_first_entry(node) == node.cost_per_rank[1]

allocate_cost(node) ==
    node.cost_per_rank[Min(node.current_rank, Len(node.cost_per_rank) - 1) + 1]

\* lines 333-334: the pool cannot pay the cost
allocate_lacks_points_or_exact(tree, cost) ==
    tree.point_pool.total - tree.point_pool.spent <= cost

allocate_lacks_points_never(tree, cost) == FALSE

allocate_lacks_points(tree, cost) ==
    tree.point_pool.total - tree.point_pool.spent < cost

allocate_point(state, tree_id, node_id) ==
    LET tree_index == get_tree_index(state, tree_id)
    IN  IF tree_index = 0 THEN state
        ELSE
          LET tree == state.project.trees[tree_index]
              node_index == get_node_index(tree, node_id)
          IN  IF node_index = 0 THEN state
              ELSE
                LET node == tree.nodes[node_index]
                    cost == allocate_cost(node)
                IN  IF allocate_is_maxed(node) THEN state
                    ELSE IF allocate_lacks_points(tree, cost) THEN state
                    ELSE with_tree(state, tree_index,
                             with_rank_and_spent(tree, node_index,
                                 node.current_rank + 1,
                                 tree.point_pool.spent + cost))

\* the inner loop of the cascade: the costs of ranks 0 .. current_rank-1,
\* taken off spent one by one
RECURSIVE refund_all_ranks(_, _, _)
refund_all_ranks(node, i, spent) ==
    IF i >= node.current_rank THEN spent
    ELSE refund_all_ranks(node, i + 1,
             spent - node.cost_per_rank[Min(i, Len(node.cost_per_rank) - 1) + 1])

\* lines 410-412: the node holds points and its prerequisites are unmet
cascade_must_refund_above_one(state, tree_id, node) ==
    node.current_rank > 1 /\ ~check_prerequisites(state, tree_id, node.id)

cascade_must_refund(state, tree_id, node) ==
    node.current_rank > 0 /\ ~check_prerequisites(state, tree_id, node.id)

\* lines 413-418: all points of the node go back to the pool, its rank to 0
cascade_refund_node_keep_rank(state, tree_index, node_index) ==
    LET tree == state.project.trees[tree_index]
        node == tree.nodes[node_index]
    IN  with_tree(state, tree_index,
            with_rank_and_spent(tree, node_index, node.current_rank,
                refund_all_ranks(node, 0, tree.point_pool.spent)))

cascade_refund_node(state, tree_index, node_index) ==
    LET tree == state.project.trees[tree_index]
        node == tree.nodes[node_index]
    IN  with_tree(state, tree_index,
            with_rank_and_spent(tree, node_index, 0,
                refund_all_ranks(node, 0, tree.point_pool.spent)))

\* one visit of the for loop over tree.nodes: [state, changed]
cascade_visit(state, tree_id, node_index, changed) ==
    LET tree_index == get_tree_index(state, tree_id)
        node == state.project.trees[tree_index].nodes[node_index]
    IN  IF cascade_must_refund(state, tree_id, node)
        THEN [state |-> cascade_refund_node(state, tree_index, node_index),
              changed |-> TRUE]
        ELSE [state |-> state, changed |-> changed]

\* one full pass of the for loop, from node_index to the end of tree.nodes
RECURSIVE cascade_pass(_, _, _, _)
cascade_pass(state, tree_id, node_index, changed) ==
    IF node_index > Len(find_tree(state, tree_id).nodes)
    THEN [state |-> state, changed |-> changed]
    ELSE LET r == cascade_visit(state, tree_id, node_index, changed)
         IN  cascade_pass(r.state, tree_id, node_index + 1, r.changed)

total_rank(tree) ==
    LET RECURSIVE sum(_)
        sum(nodes) == IF nodes = <<>> THEN 0
                      ELSE Head(nodes).current_rank + sum(Tail(nodes))
    IN  sum(tree.nodes)

\* the while (changed) loop.  passes records, per full pass, whether it set
\* changed and the total of current_rank before and after it; the loop is
\* cut off (terminated = FALSE) after CascadeFuel passes
RECURSIVE cascade_loop(_, _, _)
cascade_loop(state, tree_id, passes) ==
    IF Len(passes) >= CascadeFuel
    THEN [state |-> state, passes |-> passes, terminated |-> FALSE]
    ELSE
      LET r == cascade_pass(state, tree_id, 1, FALSE)
          entry == [changed |-> r.changed,
                    rank_before |-> total_rank(find_tree(state, tree_id)),
                    rank_after |-> total_rank(find_tree(r.state, tree_id))]
      IN  IF r.changed
          THEN cascade_loop(r.state, tree_id, Append(passes, entry))
          ELSE [state |-> r.state, passes |-> Append(passes, entry),
                terminated |-> TRUE]

\* a cascade that stops after its first pass
cascade_run_single_pass(state, tree_id) ==
    IF ~has_tree(state, tree_id)
    THEN [state |-> state, passes |-> <<>>, terminated |-> TRUE]
    ELSE LET r == cascade_pass(state, tree_id, 1, FALSE)
         IN  [state |-> r.state,
              passes |-> <<[changed |-> r.changed,
                            rank_before |-> total_rank(find_tree(state, tree_id)),
                            rank_after |-> total_rank(find_tree(r.state, tree_id))]>>,
              terminated |-> TRUE]

cascade_run(state, tree_id) ==
    IF ~has_tree(state, tree_id)
    THEN [state |-> state, passes |-> <<>>, terminated |-> TRUE]
    ELSE cascade_loop(state, tree_id, <<>>)

apply_cascade_refunds(state, tree_id) == cascade_run(state, tree_id).state

\* lines 381-382: the cost of the rank that is given back
refund_cost_of_next_rank(node) ==
    node.cost_per_rank[Min(node.current_rank, Len(node.cost_per_rank) - 1) + 1]

refund_cost(node) ==
    node.cost_per_rank[Min(node.current_rank - 1, Len(node.cost_per_rank) - 1) + 1]

\* refund_point up to and including the decrement (lines 352-386);
\* the input state when the refund is rejected
refund_decrement(state, tree_id, node_id) ==
    IF ~state.project.settings.allow_refunds THEN state
    ELSE
      LET tree_index == get_tree_index(state, tree_id)
      IN  IF tree_index = 0 THEN state
          ELSE
            LET tree == state.project.trees[tree_index]
                node_index == get_node_index(tree, node_id)
            IN  IF node_index = 0 THEN state
                ELSE
                  LET node == tree.nodes[node_index]
                  IN  IF node.current_rank <= 0 THEN state
                      ELSE with_tree(state, tree_index,
                               with_rank_and_spent(tree, node_index,
                                   node.current_rank - 1,
                                   tree.point_pool.spent - refund_cost(node)))

\* refund_point is accepted: none of its early returns is taken
refund_accepted(state, tree_id, node_id) ==
    /\ state.project.settings.allow_refunds
    /\ has_node(state, tree_id, node_id)
    /\ find_node(state, tree_id, node_id).current_rank > 0

\* the condition of line 390
cascade_enabled_edit_only(state) ==
    state.ui_state.mode = "edit" /\ state.project.settings.cascade_refunds

cascade_enabled_needs_setting(state) ==
    state.ui_state.mode # "edit" /\ state.project.settings.cascade_refunds

cascade_enabled(state) ==
    state.ui_state.mode # "edit" \/ state.project.settings.cascade_refunds

refund_point(state, tree_id, node_id) ==
    IF ~refund_accepted(state, tree_id, node_id) THEN state
    ELSE IF cascade_enabled(state)
         THEN apply_cascade_refunds(refund_decrement(state, tree_id, node_id), tree_id)
         ELSE refund_decrement(state, tree_id, node_id)

\* the passes of the cascade that refund_point runs (none when it is rejected
\* or the cascade is off)
refund_cascade(state, tree_id, node_id) ==
    IF refund_accepted(state, tree_id, node_id) /\ cascade_enabled(state)
    THEN cascade_run(refund_decrement(state, tree_id, node_id), tree_id)
    ELSE [state |-> refund_point(state, tree_id, node_id), passes |-> <<>>,
          terminated |-> TRUE]

\* reset_tree as a refund that the settings have to allow
reset_tree_where_refunds_allowed(state, tree_id) ==
    LET tree_index == get_tree_index(state, tree_id)
    IN  IF tree_index = 0 \/ ~state.project.settings.allow_refunds THEN state
        ELSE
          LET tree == state.project.trees[tree_index]
          IN  with_tree(state, tree_index,
                  [tree EXCEPT
                     !.nodes = [i \in 1..Len(tree.nodes) |->
                                   [tree.nodes[i] EXCEPT !.current_rank = 0]],
                     !.point_pool.spent = 0])

reset_tree(state, tree_id) ==
    LET tree_index == get_tree_index(state, tree_id)
    IN  IF tree_index = 0 THEN state
        ELSE
          LET tree == state.project.trees[tree_index]
          IN  with_tree(state, tree_index,
                  [tree EXCEPT
                     !.nodes = [i \in 1..Len(tree.nodes) |->
                                   [tree.nodes[i] EXCEPT !.current_rank = 0]],
                     !.point_pool.spent = 0])

set_mode(state, mode) ==
    IF mode # "edit" /\ mode # "play" THEN state
    ELSE [state EXCEPT !.ui_state.mode = mode]

----------------------------------------------------------------------------
(* actions.js: what a call hands back.  Every action starts with           *)
(* new_state = touch_modified(clone_state(state)), writes to new_state     *)
(* only, and ends with `return state` (the object it was given) or         *)
(* `return new_state` (the clone).  A call is recorded as: whether the     *)
(* returned object is the one given (same_object), the content of the      *)
(* given object when the call returns (input) and the content of the       *)
(* returned object (value).  modified_at, names, descriptions, positions   *)
(* and the selection are not part of the modelled content.                 *)

\* an action that skips clone_state and writes to the object it was given
call_in_place(state, returns_state, value) ==
    [same_object |-> TRUE, input |-> value, value |-> value]

call(state, returns_state, value) ==
    [same_object |-> returns_state, input |-> state, value |-> value]

\* allocate_point takes none of its early returns
allocate_accepted(state, tree_id, node_id) ==
    /\ has_node(state, tree_id, node_id)
    /\ ~allocate_is_maxed(find_node(state, tree_id, node_id))
    /\ ~allocate_lacks_points(find_tree(state, tree_id),
                              allocate_cost(find_node(state, tree_id, node_id)))

allocate_point_call(state, tree_id, node_id) ==
    call(state, ~allocate_accepted(state, tree_id, node_id),
         allocate_point(state, tree_id, node_id))

refund_point_call(state, tree_id, node_id) ==
    call(state, ~refund_accepted(state, tree_id, node_id),
         refund_point(state, tree_id, node_id))

reset_tree_call(state, tree_id) ==
    call(state, ~has_tree(state, tree_id), reset_tree(state, tree_id))

set_mode_call(state, mode) ==
    call(state, mode # "edit" /\ mode # "play", set_mode(state, mode))

----------------------------------------------------------------------------
(* actions.js: the actions on trees, nodes and connections.  id stands for *)
(* the result of generate_id.                                              *)

\* Array.prototype.splice(index, 1)
RemoveAt(s, index) == SubSeq(s, 1, index - 1) \o SubSeq(s, index + 1, Len(s))

add_tree_call(state, id) ==
    call(state, FALSE,
         [state EXCEPT
            !.project.trees = Append(@, create_tree(id, "New Tree")),
            !.ui_state.active_tree_id =
                IF Len(state.project.trees) + 1 = 1 THEN id ELSE @])

remove_tree_call(state, tree_id) ==
    LET index == get_tree_index(state, tree_id)
        trees == RemoveAt(state.project.trees, index)
    IN  IF index = 0 THEN call(state, TRUE, state)
        ELSE call(state, FALSE,
                  [state EXCEPT
                     !.project.trees = trees,
                     !.ui_state.active_tree_id =
                         IF @ = tree_id
                         THEN (IF Len(trees) > 0 THEN trees[1].id ELSE "null")
                         ELSE @])

\* changes is a record; a field it lacks is undefined
update_tree_call(state, tree_id, changes) ==
    LET index == get_tree_index(state, tree_id)
    IN  IF index = 0 THEN call(state, TRUE, state)
        ELSE call(state, FALSE,
                  IF "total_points" \in DOMAIN changes
                  THEN [state EXCEPT !.project.trees[index].point_pool.total =
                                         changes.total_points]
                  ELSE state)

\* the handlers pass name, x and y only, so the node is the one of create_node
add_node_call(state, tree_id, id) ==
    LET tree_index == get_tree_index(state, tree_id)
    IN  IF tree_index = 0 THEN call(state, TRUE, state)
        ELSE call(state, FALSE,
                  [state EXCEPT !.project.trees[tree_index].nodes =
                                    Append(@, create_node(id))])

\* the connections that remove_node keeps
remove_node_keeps_incoming(connections, node_id) ==
    FilterSeq(connections,
              {c \in Range(connections) : c.from_node_id # node_id})

remove_node_keeps(connections, node_id) ==
    FilterSeq(connections,
              {c \in Range(connections) :
                  c.from_node_id # node_id /\ c.to_node_id # node_id})

remove_node_call(state, tree_id, node_id) ==
    LET tree_index == get_tree_index(state, tree_id)
    IN  IF tree_index = 0 THEN call(state, TRUE, state)
        ELSE
          LET tree == state.project.trees[tree_index]
              node_index == get_node_index(tree, node_id)
          IN  IF node_index = 0 THEN call(state, TRUE, state)
              ELSE call(state, FALSE,
                        with_tree(state, tree_index,
                            [tree EXCEPT
                               !.nodes = RemoveAt(@, node_index),
                               !.connections = remove_node_keeps(@, node_id)]))

\* update_node with every key of the node among the allowed_keys
update_node_call_any_key(state, tree_id, node_id, changes) ==
    LET tree_index == get_tree_index(state, tree_id)
    IN  IF tree_index = 0 THEN call(state, TRUE, state)
        ELSE
          LET tree == state.project.trees[tree_index]
              node_index == get_node_index(tree, node_id)
          IN  IF node_index = 0 THEN call(state, TRUE, state)
              ELSE call(state, FALSE,
                        [state EXCEPT
                           !.project.trees[tree_index].nodes[node_index] =
                               [key \in DOMAIN @ |->
                                   IF key \in DOMAIN changes
                                   THEN changes[key] ELSE @[key]]])

\* of the allowed_keys, those that the modelled node carries
update_node_call(state, tree_id, node_id, changes) ==
    LET tree_index == get_tree_index(state, tree_id)
    IN  IF tree_index = 0 THEN call(state, TRUE, state)
        ELSE
          LET tree == state.project.trees[tree_index]
              node_index == get_node_index(tree, node_id)
          IN  IF node_index = 0 THEN call(state, TRUE, state)
              ELSE call(state, FALSE,
                        [state EXCEPT
                           !.project.trees[tree_index].nodes[node_index] =
                               [key \in DOMAIN @ |->
                                   IF key \in {"max_rank", "cost_per_rank",
                                                "prerequisite_logic",
                                                "prerequisite_threshold"}
                                              \cap DOMAIN changes
                                   THEN changes[key] ELSE @[key]]])

\* the position is not part of the modelled content
update_node_position_call(state, tree_id, node_id) ==
    IF ~has_node(state, tree_id, node_id) THEN call(state, TRUE, state)
    ELSE call(state, FALSE, state)

get_connection_index(tree, connection_id) == FirstIndex(tree.connections, connection_id)

\* lines 486-489: the pair is already connected
is_duplicate(tree, options) ==
    \E i \in 1..Len(tree.connections) :
       /\ tree.connections[i].from_node_id = options.from_node_id
       /\ tree.connections[i].to_node_id = options.to_node_id

\* lines 495-503: the connection that is pushed
new_connection(id, options) ==
    LET connection == create_connection(id, options.from_node_id, options.to_node_id)
        with_logic == IF "logic" \in DOMAIN options
                         /\ (options.logic = "AND" \/ options.logic = "OR")
                      THEN [connection EXCEPT !.logic = options.logic]
                      ELSE connection
    IN  IF "required_rank" \in DOMAIN options
        THEN [with_logic EXCEPT !.required_rank = options.required_rank]
        ELSE with_logic

\* options.from_node_id = "" stands for a missing (falsy) endpoint
add_connection_call(state, tree_id, id, options) ==
    IF options.from_node_id = "" \/ options.to_node_id = ""
    THEN call(state, TRUE, state)
    ELSE
      LET tree_index == get_tree_index(state, tree_id)
      IN  IF tree_index = 0 THEN call(state, TRUE, state)
          ELSE
            LET tree == state.project.trees[tree_index]
            IN  IF \/ get_node_index(tree, options.from_node_id) = 0
                   \/ get_node_index(tree, options.to_node_id) = 0
                THEN call(state, TRUE, state)
                ELSE IF is_duplicate(tree, options) THEN call(state, TRUE, state)
                ELSE call(state, FALSE,
                          [state EXCEPT !.project.trees[tree_index].connections =
                                            Append(@, new_connection(id, options))])

remove_connection_call(state, tree_id, connection_id) ==
    LET tree_index == get_tree_index(state, tree_id)
    IN  IF tree_index = 0 THEN call(state, TRUE, state)
        ELSE
          LET conn_index == get_connection_index(state.project.trees[tree_index],
                                                 connection_id)
          IN  IF conn_index = 0 THEN call(state, TRUE, state)
              ELSE call(state, FALSE,
                        [state EXCEPT !.project.trees[tree_index].connections =
                                          RemoveAt(@, conn_index)])

update_connection_call(state, tree_id, connection_id, changes) ==
    LET tree_index == get_tree_index(state, tree_id)
    IN  IF tree_index = 0 THEN call(state, TRUE, state)
        ELSE
          LET conn_index == get_connection_index(state.project.trees[tree_index],
                                                 connection_id)
          IN  IF conn_index = 0 THEN call(state, TRUE, state)
              ELSE call(state, FALSE,
                        [state EXCEPT
                           !.project.trees[tree_index].connections[conn_index] =
                               [@ EXCEPT
                                  !.logic =
                                      IF "logic" \in DOMAIN changes
                                         /\ (changes.logic = "AND" \/ changes.logic = "OR")
                                      THEN changes.logic ELSE @,
                                  !.required_rank =
                                      IF "required_rank" \in DOMAIN changes
                                      THEN changes.required_rank ELSE @]])

\* dispatch: app_state becomes the returned object when it is not the
\* object that app_state already is
dispatch(returned) ==
    IF returned.same_object THEN returned.input ELSE returned.value

----------------------------------------------------------------------------
(* validation engine: reachability, cycles and validate_tree *)

\* the forEach over tree.nodes that seeds the search: ids of the nodes
\* without incoming connection, in array order
RECURSIVE reachability_roots(_, _)
reachability_roots(tree, nodes) ==
    IF nodes = <<>> THEN <<>>
    ELSE IF Len(incoming_connections(tree, Head(nodes).id)) = 0
         THEN <<Head(nodes).id>> \o reachability_roots(tree, Tail(nodes))
         ELSE reachability_roots(tree, Tail(nodes))

\* lines 202-213: whether the target's logic can be met by the parents that
\* are reachable so far
can_reach_all_logics_need_all(target_node, incoming, reachable) ==
    \A i \in 1..Len(incoming) : incoming[i].from_node_id \in reachable

can_reach(target_node, incoming, reachable) ==
    LET logic == logic_or_default(target_node)
    IN  IF logic = "AND"
        THEN \A i \in 1..Len(incoming) : incoming[i].from_node_id \in reachable
        ELSE IF logic = "OR" \/ logic = "SUM"
        THEN \E i \in 1..Len(incoming) : incoming[i].from_node_id \in reachable
        ELSE FALSE

\* lines 199-202: target_node is null and reading its prerequisite_logic
\* throws a TypeError
reads_null_target(state, tree_id, target_id) == ~has_node(state, tree_id, target_id)

\* the for loop over the outgoing connections of the dequeued node
RECURSIVE reach_outgoing(_, _, _, _, _)
reach_outgoing(state, tree_id, outgoing, reachable, queue) ==
    IF outgoing = <<>>
    THEN [raised |-> FALSE, reachable |-> reachable, queue |-> queue]
    ELSE
      LET target_id == Head(outgoing).to_node_id
          tree == find_tree(state, tree_id)
      IN  IF target_id \in reachable
          THEN reach_outgoing(state, tree_id, Tail(outgoing), reachable, queue)
          ELSE IF reads_null_target(state, tree_id, target_id)
          THEN [raised |-> TRUE, reachable |-> reachable, queue |-> queue]
          ELSE IF can_reach(find_node(state, tree_id, target_id),
                            incoming_connections(tree, target_id), reachable)
          THEN reach_outgoing(state, tree_id, Tail(outgoing),
                              reachable \cup {target_id}, Append(queue, target_id))
          ELSE reach_outgoing(state, tree_id, Tail(outgoing), reachable, queue)

\* the while (head < queue.length) loop; head counts from 1
RECURSIVE reach_bfs(_, _, _, _, _)
reach_bfs(state, tree_id, reachable, queue, head) ==
    IF head > Len(queue)
    THEN [raised |-> FALSE, reachable |-> reachable]
    ELSE
      LET r == reach_outgoing(state, tree_id,
                   outgoing_connections(find_tree(state, tree_id), queue[head]),
                   reachable, queue)
      IN  IF r.raised THEN [raised |-> TRUE, reachable |-> r.reachable]
          ELSE reach_bfs(state, tree_id, r.reachable, r.queue, head + 1)

\* ids of the nodes outside keep, in array order
RECURSIVE ids_outside(_, _)
ids_outside(nodes, keep) ==
    IF nodes = <<>> THEN <<>>
    ELSE IF Head(nodes).id \in keep THEN ids_outside(Tail(nodes), keep)
         ELSE <<Head(nodes).id>> \o ids_outside(Tail(nodes), keep)

\* raised = TRUE stands for the exception that leaves the function
check_tree_reachability(state, tree_id) ==
    IF ~has_tree(state, tree_id) THEN [raised |-> FALSE, unreachable |-> <<>>]
    ELSE
      LET tree == find_tree(state, tree_id)
          roots == reachability_roots(tree, tree.nodes)
          r == reach_bfs(state, tree_id, Range(roots), roots, 1)
      IN  IF r.raised THEN [raised |-> TRUE, unreachable |-> <<>>]
          ELSE [raised |-> FALSE, unreachable |-> ids_outside(tree.nodes, r.reachable)]

\* adjacency[node_id] || []: the targets of the connections whose source is
\* a node of the tree, in connection order
RECURSIVE adjacency_of(_, _, _)
adjacency_of(tree, connections, node_id) ==
    IF connections = <<>> THEN <<>>
    ELSE IF /\ Head(connections).from_node_id = node_id
            /\ get_node_index(tree, node_id) # 0
         THEN <<Head(connections).to_node_id>>
                  \o adjacency_of(tree, Tail(connections), node_id)
         ELSE adjacency_of(tree, Tail(connections), node_id)

\* path.slice(path.indexOf(neighbor))
path_from_start(path, neighbor) == path

path_from(path, neighbor) ==
    LET start == CHOOSE i \in 1..Len(path) :
                    path[i] = neighbor /\ \A j \in 1..(i - 1) : path[j] # neighbor
    IN  SubSeq(path, start, Len(path))

\* dfs(node_id) and its loop over the neighbours.  d carries visited,
\* rec_stack and path, found/cycle the returned cycle (found = FALSE: null)
RECURSIVE dfs_neighbors(_, _, _, _)
dfs_visit(tree, node_id, d) ==
    LET entered == [d EXCEPT !.visited = @ \cup {node_id},
                             !.rec_stack = @ \cup {node_id},
                             !.path = Append(@, node_id)]
        r == dfs_neighbors(tree, node_id,
                           adjacency_of(tree, tree.connections, node_id), entered)
    IN  IF r.found THEN r
        ELSE [r EXCEPT !.path = SubSeq(@, 1, Len(@) - 1),
                       !.rec_stack = @ \ {node_id}]

dfs_neighbors(tree, node_id, neighbors, d) ==
    IF neighbors = <<>> THEN d
    ELSE
      LET neighbor == Head(neighbors)
      IN  IF neighbor \notin d.visited
          THEN LET r == dfs_visit(tree, neighbor, d)
               IN  IF r.found THEN r
                   ELSE dfs_neighbors(tree, node_id, Tail(neighbors), r)
          ELSE IF neighbor \in d.rec_stack
          THEN [d EXCEPT !.found = TRUE, !.cycle = path_from(d.path, neighbor)]
          ELSE dfs_neighbors(tree, node_id, Tail(neighbors), d)

\* the final loop over tree.nodes
RECURSIVE detect_from(_, _, _)
detect_from(tree, nodes, d) ==
    IF nodes = <<>> THEN d
    ELSE IF Head(nodes).id \in d.visited THEN detect_from(tree, Tail(nodes), d)
    ELSE LET r == dfs_visit(tree, Head(nodes).id, d)
         IN  IF r.found THEN r ELSE detect_from(tree, Tail(nodes), r)

\* found = FALSE stands for the null result
detect_cycle(tree) ==
    LET r == detect_from(tree, tree.nodes,
                 [visited |-> {}, rec_stack |-> {}, path |-> <<>>,
                  found |-> FALSE, cycle |-> <<>>])
    IN  [found |-> r.found, cycle |-> r.cycle]

\* node_ids.filter((id, index) => node_ids.indexOf(id) !== index)
RECURSIVE duplicate_node_errors(_, _)
duplicate_node_errors(nodes, index) ==
    IF index > Len(nodes) THEN <<>>
    ELSE (IF FirstIndex(nodes, nodes[index].id) # index
          THEN <<[code |-> "ERR_DUPLICATE_NODE_ID", ref |-> nodes[index].id]>>
          ELSE <<>>)
         \o duplicate_node_errors(nodes, index + 1)

\* node_ids.includes(node_id)
endpoint_exists_always(tree, node_id) == TRUE

endpoint_exists(tree, node_id) == get_node_index(tree, node_id) # 0

\* the loop over tree.connections: source error first, then target error
RECURSIVE connection_endpoint_errors(_, _)
connection_endpoint_errors(tree, connections) ==
    IF connections = <<>> THEN <<>>
    ELSE
      LET conn == Head(connections)
      IN  (IF ~endpoint_exists(tree, conn.from_node_id)
           THEN <<[code |-> "ERR_INVALID_CONNECTION_SOURCE", ref |-> conn.id]>>
           ELSE <<>>)
          \o (IF ~endpoint_exists(tree, conn.to_node_id)
              THEN <<[code |-> "ERR_INVALID_CONNECTION_TARGET", ref |-> conn.id]>>
              ELSE <<>>)
          \o connection_endpoint_errors(tree, Tail(connections))

cycle_errors(tree) ==
    IF detect_cycle(tree).found
    THEN <<[code |-> "ERR_CYCLIC_DEPENDENCY", ref |-> ""]>>
    ELSE <<>>

\* line 676: the condition under which orphans are looked for
orphan_check_applies_always(tree) == TRUE

orphan_check_applies(tree) == Len(tree.nodes) > 1 /\ Len(tree.connections) > 0

is_orphan(tree, node) ==
    /\ Len(incoming_connections(tree, node.id)) = 0
    /\ Len(outgoing_connections(tree, node.id)) = 0

RECURSIVE orphan_warnings_of(_, _)
orphan_warnings_of(tree, nodes) ==
    IF nodes = <<>> THEN <<>>
    ELSE (IF is_orphan(tree, Head(nodes))
          THEN <<[code |-> "WARN_ORPHANED_NODE", ref |-> Head(nodes).id]>>
          ELSE <<>>)
         \o orphan_warnings_of(tree, Tail(nodes))

orphan_warnings(tree) ==
    IF orphan_check_applies(tree) THEN orphan_warnings_of(tree, tree.nodes) ELSE <<>>

validate_tree(state, tree_id) ==
    IF ~has_tree(state, tree_id)
    THEN [is_valid |-> FALSE,
          errors |-> <<[code |-> "ERR_TREE_NOT_FOUND", ref |-> tree_id]>>,
          warnings |-> <<>>]
    ELSE
      LET tree == find_tree(state, tree_id)
          errors == duplicate_node_errors(tree.nodes, 1)
                       \o connection_endpoint_errors(tree, tree.connections)
                       \o cycle_errors(tree)
          warnings == (IF warn_point_pool_mismatch(state, tree_id)
                       THEN <<[code |-> "WARN_POINT_POOL_MISMATCH", ref |-> ""]>>
                       ELSE <<>>)
                      \o orphan_warnings(tree)
      IN  [is_valid |-> Len(errors) = 0, errors |-> errors, warnings |-> warnings]

\* the loop of validate_state over state.project.trees: the errors and the
\* warnings of each tree, in array order
RECURSIVE tree_results(_, _, _)
tree_results(state, trees, field) ==
    IF trees = <<>> THEN <<>>
    ELSE validate_tree(state, Head(trees).id)[field]
            \o tree_results(state, Tail(trees), field)

RECURSIVE duplicate_tree_errors(_, _)
duplicate_tree_errors(trees, index) ==
    IF index > Len(trees) THEN <<>>
    ELSE (IF FirstIndex(trees, trees[index].id) # index
          THEN <<[code |-> "ERR_DUPLICATE_TREE_ID", ref |-> trees[index].id]>>
          ELSE <<>>)
         \o duplicate_tree_errors(trees, index + 1)

validate_state(state) ==
    LET errors == tree_results(state, state.project.trees, "errors")
                     \o duplicate_tree_errors(state.project.trees, 1)
        warnings == tree_results(state, state.project.trees, "warnings")
    IN  [is_valid |-> Len(errors) = 0, errors |-> errors, warnings |-> warnings]

\* the state that a query of the validation engine was given, after the
\* query: the queries hold no assignment to state or to anything in it
state_after_query_mode_reset(state) == [state EXCEPT !.ui_state.mode = "edit"]

state_after_query(state) == state

----------------------------------------------------------------------------
(* Initial states: one tree T1 of three nodes A, B, C (in this array       *)
(* order), all ranks 0 and nothing spent, as add_tree/add_node/            *)
(* add_connection/update_node build it or import_project loads it.         *)

NodeIds == <<"A", "B", "C">>

\* max_rank of A, B, C: C keeps the max_rank of create_node
NodeMaxRanks == <<MaxRank, MaxRank, 1>>

\* prerequisite_logic of A, B, C
LogicAssignments ==
    {<<"AND", "AND", "AND">>, <<"OR", "OR", "OR">>, <<"SUM", "SUM", "SUM">>,
     <<"OR", "AND", "SUM">>}

Conn(id, from, to, rank) ==
    [create_connection(id, from, to) EXCEPT !.required_rank = rank, !.logic = "AND"]

\* the connection arrays: chains along and against the node order, a
\* diamond, a triangle, cycles and a self-loop
ConnectionSets ==
    {<<Conn("c1", "A", "B", 1), Conn("c2", "B", "C", 1)>>,
     <<Conn("c1", "C", "B", 1), Conn("c2", "B", "A", 2)>>,
     <<Conn("c1", "A", "C", 1), Conn("c2", "B", "C", 2)>>,
     <<Conn("c1", "B", "A", 1), Conn("c2", "C", "B", 1), Conn("c3", "A", "C", 2)>>,
     <<Conn("c1", "C", "A", 1), Conn("c2", "B", "A", 1), Conn("c3", "A", "B", 2)>>,
     <<Conn("c1", "A", "A", 1), Conn("c2", "A", "B", 1)>>}

\* cost_per_rank of A, B, C: B's second rank is beyond the array and costs
\* its last entry; prerequisite_threshold of A, B, C is used by SUM
InitialNode(i, logics) ==
    [create_node(NodeIds[i]) EXCEPT
        !.max_rank = NodeMaxRanks[i],
        !.cost_per_rank = <<(<<1, 2>>), (<<1>>), (<<2>>)>>[i],
        !.prerequisite_logic = logics[i],
        !.prerequisite_threshold = <<1, 2, 2>>[i]]

InitialTree(logics, connections, total) ==
    [create_tree("T1", "T1") EXCEPT
        !.point_pool.total = total,
        !.nodes = <<InitialNode(1, logics), InitialNode(2, logics),
                    InitialNode(3, logics)>>,
        !.connections = connections]

DefaultSettings == [allow_refunds |-> TRUE, cascade_refunds |-> FALSE]

create_initial_state(settings, trees) ==
    [project |-> [settings |-> settings, trees |-> trees],
     ui_state |-> [active_tree_id |-> "T1", mode |-> "edit"]]

NoCascade == [passes |-> <<>>, terminated |-> TRUE]

Record(op, tree_id, node_id, before, cascade) ==
    [op |-> op, tree_id |-> tree_id, node_id |-> node_id, before |-> before,
     passes |-> cascade.passes, terminated |-> cascade.terminated]

\* project.settings and the tree's total_points: the defaults of
\* create_initial_state and create_tree, the other settings an imported
\* project can carry, and a budget that runs out
Init ==
    /\ \E logics \in LogicAssignments, connections \in ConnectionSets,
          choice \in
            {[settings |-> DefaultSettings, total |-> DefaultTotal],
             [settings |-> [allow_refunds |-> TRUE, cascade_refunds |-> TRUE],
              total |-> DefaultTotal],
             [settings |-> [allow_refunds |-> FALSE, cascade_refunds |-> FALSE],
              total |-> DefaultTotal],
             [settings |-> DefaultSettings, total |-> SmallTotal]} :
          app_state = create_initial_state(choice.settings,
                          <<InitialTree(logics, connections, choice.total)>>)
    /\ last = Record("init", "T1", "A", app_state, NoCascade)

----------------------------------------------------------------------------
(* Operations.  dispatch(action_fn, args) replaces app_state by the state  *)
(* the action returns; last records the call and the state it was given.   *)

\* arguments of the direct calls: the nodes of T1, a node id that T1 does
\* not have, and a tree id that the project does not have
TreeNodeArgs ==
    {<<"T1", "A">>, <<"T1", "B">>, <<"T1", "C">>, <<"T1", "Z">>, <<"T0", "A">>}

AllocatePoint(tree_id, node_id) ==
    /\ app_state' = allocate_point(app_state, tree_id, node_id)
    /\ last' = Record("allocate_point", tree_id, node_id, app_state, NoCascade)

RefundPoint(tree_id, node_id) ==
    /\ app_state' = refund_point(app_state, tree_id, node_id)
    /\ last' = Record("refund_point", tree_id, node_id, app_state,
                      refund_cascade(app_state, tree_id, node_id))

ResetTree(tree_id) ==
    /\ app_state' = reset_tree(app_state, tree_id)
    /\ last' = Record("reset_tree", tree_id, "A", app_state, NoCascade)

SetMode(mode) ==
    /\ app_state' = set_mode(app_state, mode)
    /\ last' = Record("set_mode", "T1", "A", app_state, NoCascade)

\* click on a node while the connection panel is hidden: in edit mode it only
\* selects the node
\* (ui_state.selected_node_id, which is not part of the modelled state); in
\* play mode it allocates when can_allocate_point allows it
NodeClick(node_id) ==
    LET tree_id == app_state.ui_state.active_tree_id
    IN  /\ app_state' =
              IF app_state.ui_state.mode = "edit" THEN app_state
              ELSE IF can_allocate_point(app_state, tree_id, node_id).can_allocate
                   THEN allocate_point(app_state, tree_id, node_id)
                   ELSE app_state
        /\ last' = Record("node_click", tree_id, node_id, app_state, NoCascade)

\* right click on a node: refund when can_refund_point allows it
NodeContextMenu(node_id) ==
    LET tree_id == app_state.ui_state.active_tree_id
        allowed == can_refund_point(app_state, tree_id, node_id).can_refund
    IN  /\ app_state' = IF allowed THEN refund_point(app_state, tree_id, node_id)
                        ELSE app_state
        /\ last' = Record("node_contextmenu", tree_id, node_id, app_state,
                          IF allowed THEN refund_cascade(app_state, tree_id, node_id)
                          ELSE NoCascade)

Next ==
    \/ \E a \in TreeNodeArgs : AllocatePoint(a[1], a[2])
    \/ \E a \in TreeNodeArgs : RefundPoint(a[1], a[2])
    \/ \E tree_id \in {"T1", "T0"} : ResetTree(tree_id)
    \/ \E mode \in {"edit", "play"} : SetMode(mode)
    \/ \E node_id \in Range(NodeIds) : NodeClick(node_id)
    \/ \E node_id \in Range(NodeIds) : NodeContextMenu(node_id)

Spec == Init /\ [][Next]_vars

----------------------------------------------------------------------------
(* Vocabulary of the properties: the last call, the state it was given     *)
(* (last.before) and the state it returned (app_state).                    *)

RefundOps == {"refund_point", "node_contextmenu"}

Changed == app_state # last.before

BeforeHasNode == has_node(last.before, last.tree_id, last.node_id)
BeforeTree == find_tree(last.before, last.tree_id)
AfterTree == find_tree(app_state, last.tree_id)
BeforeNode == find_node(last.before, last.tree_id, last.node_id)
AfterNode == find_node(app_state, last.tree_id, last.node_id)

BeforeRank(id) == find_node(last.before, last.tree_id, id).current_rank
AfterRank(id) == find_node(app_state, last.tree_id, id).current_rank

NodeIdsOf(tree) == {tree.nodes[i].id : i \in 1..Len(tree.nodes)}

\* cost_per_rank[min(i, length-1)], i counted from 0
ClampedCost(node, i) ==
    node.cost_per_rank[(IF i < Len(node.cost_per_rank) - 1
                        THEN i ELSE Len(node.cost_per_rank) - 1) + 1]

\* sum of ClampedCost(node, i) for i = 0 .. ranks-1
RECURSIVE AccumulatedCost(_, _)
AccumulatedCost(node, ranks) ==
    IF ranks = 0 THEN 0
    ELSE ClampedCost(node, ranks - 1) + AccumulatedCost(node, ranks - 1)

RECURSIVE SumOver(_, _)
SumOver(f, S) ==
    IF S = {} THEN 0
    ELSE LET x == CHOOSE y \in S : TRUE IN f[x] + SumOver(f, S \ {x})

\* the cost sum that the ranks of a tree imply
CostSum(tree) ==
    SumOver([i \in 1..Len(tree.nodes) |->
                AccumulatedCost(tree.nodes[i], tree.nodes[i].current_rank)],
            1..Len(tree.nodes))

\* the refund was accepted and the cascade ran after it
RefundWithCascade ==
    /\ last.op \in RefundOps
    /\ Changed
    /\ cascade_enabled(last.before)

----------------------------------------------------------------------------
(* C1: conservation *)

\* C1: after any sequence of allocate_point, refund_point (with or without
\* the cascade) and reset_tree, point_pool.spent of every tree equals the sum
\* over its nodes of cost_per_rank[min(i, length-1)] for i = 0..current_rank-1,
\* and validate_tree reports no WARN_POINT_POOL_MISMATCH.
C1_Conservation ==
    \A t \in 1..Len(app_state.project.trees) :
       LET tree == app_state.project.trees[t]
       IN  /\ tree.point_pool.spent = CostSum(tree)
           /\ ~warn_point_pool_mismatch(app_state, tree.id)

\* a refund whose cascade forced a node to 0, leaving points spent, one of
\* them on a rank beyond the end of cost_per_rank
C1_Witness ==
    /\ RefundWithCascade
    /\ Len(last.passes) >= 2
    /\ \E i \in 1..Len(AfterTree.nodes) :
          AfterTree.nodes[i].current_rank > Len(AfterTree.nodes[i].cost_per_rank)
    /\ AfterTree.point_pool.spent > 0

----------------------------------------------------------------------------
(* C2: rank bounds *)

\* C2: every node has 0 <= current_rank <= max_rank after every operation;
\* allocate_point on a node at max_rank and refund_point on a node at rank 0
\* return the state unchanged.
C2_RankBounds ==
    /\ \A t \in 1..Len(app_state.project.trees) :
          \A i \in 1..Len(app_state.project.trees[t].nodes) :
             LET node == app_state.project.trees[t].nodes[i]
             IN  0 <= node.current_rank /\ node.current_rank <= node.max_rank
    /\ (last.op = "allocate_point" /\ BeforeHasNode
          /\ BeforeNode.current_rank = BeforeNode.max_rank) => ~Changed
    /\ (last.op = "refund_point" /\ BeforeHasNode
          /\ BeforeNode.current_rank = 0) => ~Changed

\* allocate_point was called on a node at its max_rank, with points left
C2_Witness ==
    /\ last.op = "allocate_point"
    /\ BeforeHasNode
    /\ BeforeNode.current_rank = BeforeNode.max_rank
    /\ BeforeTree.point_pool.total - BeforeTree.point_pool.spent >= 2
    /\ ~Changed

----------------------------------------------------------------------------
(* C3: the cascade reaches a fixpoint *)

\* C3: when refund_point succeeds in play mode, or in edit mode with
\* settings.cascade_refunds, every node of that tree with current_rank > 0
\* has check_prerequisites = TRUE in the returned state.
C3_CascadeFixpoint ==
    RefundWithCascade =>
       \A i \in 1..Len(AfterTree.nodes) :
          AfterTree.nodes[i].current_rank > 0 =>
             check_prerequisites(app_state, last.tree_id, AfterTree.nodes[i].id)

\* the cascade forced some other node to 0 and left a node that has
\* incoming connections allocated
C3_Witness ==
    /\ RefundWithCascade
    /\ \E id \in NodeIdsOf(AfterTree) :
          id # last.node_id /\ BeforeRank(id) > 0 /\ AfterRank(id) = 0
    /\ \E id \in NodeIdsOf(AfterTree) :
          /\ AfterRank(id) > 0
          /\ Len(incoming_connections(AfterTree, id)) > 0

----------------------------------------------------------------------------
(* C4: cascade in one call, to any depth *)

\* nodes with AND logic that a connection from a node of sources targets
AndDependents(tree, sources) ==
    {c.to_node_id : c \in {d \in Range(tree.connections) :
        /\ d.from_node_id \in sources
        /\ logic_or_default(tree.nodes[get_node_index(tree, d.to_node_id)]) = "AND"}}

\* the nodes other than the refunded one that the call took from a rank > 0 to 0
ForcedNodes ==
    {id \in NodeIdsOf(BeforeTree) :
        id # last.node_id /\ BeforeRank(id) > 0 /\ AfterRank(id) = 0}

\* C4: a single play-mode refund_point of a node A from rank 1 to 0 returns a
\* state in which every AND node B with a connection from A has rank 0, every
\* AND node C with a connection from such a B has rank 0 too, and spent is
\* lower by A's refunded cost plus the full accumulated cost of every node
\* forced to 0.
C4_CascadeInOneCall ==
    (/\ last.op \in RefundOps
     /\ Changed
     /\ last.before.ui_state.mode = "play"
     /\ BeforeNode.current_rank = 1)
    =>
    LET direct == AndDependents(BeforeTree, {last.node_id})
        second == AndDependents(BeforeTree, direct)
    IN  /\ AfterRank(last.node_id) = 0
        /\ \A id \in direct \cup second : AfterRank(id) = 0
        /\ AfterTree.point_pool.spent =
              BeforeTree.point_pool.spent
              - ClampedCost(BeforeNode, 0)
              - SumOver([id \in ForcedNodes |->
                            AccumulatedCost(find_node(last.before, last.tree_id, id),
                                            BeforeRank(id))],
                        ForcedNodes)

\* the chain A -> B -> C with all three allocated: the refund of A from 1 to 0
\* in play mode took B and C to 0 in the same call
C4_Witness ==
    /\ last.op = "refund_point"
    /\ Changed
    /\ last.before.ui_state.mode = "play"
    /\ last.node_id = "A"
    /\ BeforeNode.current_rank = 1
    /\ \E c \in Range(BeforeTree.connections) :
          c.from_node_id = "A" /\ c.to_node_id = "B" /\ c.required_rank = 1
    /\ \E c \in Range(BeforeTree.connections) :
          c.from_node_id = "B" /\ c.to_node_id = "C"
    /\ \A id \in {"A", "B", "C"} :
          logic_or_default(find_node(last.before, last.tree_id, id)) = "AND"
    /\ BeforeRank("B") = 2 /\ BeforeRank("C") = 1
    /\ AfterRank("A") = 0 /\ AfterRank("B") = 0 /\ AfterRank("C") = 0
    /\ BeforeTree.point_pool.spent - AfterTree.point_pool.spent = 5

----------------------------------------------------------------------------
(* C5: idempotence of the cascade *)

\* C5: running apply_cascade_refunds a second time on the tree produced by a
\* first run changes no node's current_rank and not point_pool.spent.
C5_CascadeIdempotent ==
    (last.op \in RefundOps /\ Len(last.passes) > 0) =>
       LET again == cascade_run(app_state, last.tree_id)
       IN  /\ again.state.project.trees = app_state.project.trees
           /\ Len(again.passes) = 1
           /\ ~again.passes[1].changed

\* a cascade that needed two changing passes; a second run on its result
\* changes nothing
C5_Witness ==
    /\ RefundWithCascade
    /\ Len(last.passes) >= 3
    /\ apply_cascade_refunds(app_state, last.tree_id) = app_state

----------------------------------------------------------------------------
(* C6: termination of the cascade *)

\* C6: apply_cascade_refunds terminates on every tree, cyclic ones included;
\* every pass that sets changed strictly lowers the total of current_rank,
\* and there are at most (number of nodes) + 1 full passes.
C6_CascadeTerminates ==
    /\ last.terminated
    /\ \A k \in 1..Len(last.passes) :
          last.passes[k].changed =>
             last.passes[k].rank_after < last.passes[k].rank_before
    /\ Len(last.passes) > 0 => Len(last.passes) <= Len(BeforeTree.nodes) + 1

\* a cascade on a cyclic tree that took the full (number of nodes) + 1 passes
C6_Witness ==
    /\ RefundWithCascade
    /\ last.terminated
    /\ Len(last.passes) = Len(BeforeTree.nodes) + 1
    /\ \A id \in NodeIdsOf(BeforeTree) :
          Len(incoming_connections(BeforeTree, id)) > 0

----------------------------------------------------------------------------
(* C7: a locked node cannot be allocated in play mode *)

----------------------------------------------------------------------------
(* C8: allocate effect and budget *)

\* C8: allocate_point succeeds exactly when the tree and node exist,
\* current_rank < max_rank and total - spent >= cost_per_rank[min(current_rank,
\* length-1)]; on success it raises current_rank by exactly 1 and spent by
\* exactly that cost and changes nothing else; in edit mode can_allocate_point
\* ignores prerequisites but rejects at the rank ceiling and on insufficient
\* points.
C8_AllocateEffect ==
    /\ last.op = "allocate_point" =>
          LET ok == /\ BeforeHasNode
                    /\ BeforeNode.current_rank < BeforeNode.max_rank
                    /\ BeforeTree.point_pool.total - BeforeTree.point_pool.spent
                          >= ClampedCost(BeforeNode, BeforeNode.current_rank)
          IN  /\ Changed <=> ok
              /\ ok =>
                   LET t == get_tree_index(last.before, last.tree_id)
                       n == get_node_index(BeforeTree, last.node_id)
                   IN  app_state =
                          [last.before EXCEPT
                             !.project.trees[t].nodes[n].current_rank = @ + 1,
                             !.project.trees[t].point_pool.spent =
                                 @ + ClampedCost(BeforeNode, BeforeNode.current_rank)]
    /\ app_state.ui_state.mode = "edit" =>
          \A t \in 1..Len(app_state.project.trees) :
             \A n \in 1..Len(app_state.project.trees[t].nodes) :
                LET tree == app_state.project.trees[t]
                    node == tree.nodes[n]
                IN  can_allocate_point(app_state, tree.id, node.id).can_allocate
                    <=> /\ node.current_rank < node.max_rank
                        /\ tree.point_pool.total - tree.point_pool.spent
                              >= ClampedCost(node, node.current_rank)

\* in edit mode allocate_point succeeded on a node whose prerequisites are
\* unmet, for a rank beyond the end of cost_per_rank
C8_Witness ==
    /\ last.op = "allocate_point"
    /\ Changed
    /\ last.before.ui_state.mode = "edit"
    /\ ~check_prerequisites(last.before, last.tree_id, last.node_id)
    /\ BeforeNode.current_rank >= Len(BeforeNode.cost_per_rank)
    /\ AfterNode.current_rank = BeforeNode.current_rank + 1

----------------------------------------------------------------------------
(* C9: refund effect and cascade trigger *)

\* the rank of a node after the decrement of refund_point, before any cascade
DecrementedRank(id) ==
    IF id = last.node_id THEN BeforeRank(id) - 1 ELSE BeforeRank(id)

\* C9: a successful refund_point first lowers the node's current_rank by
\* exactly 1 and spent by cost_per_rank[min(current_rank-1, length-1)]; the
\* cascade then runs iff ui_state.mode is not edit or settings.cascade_refunds
\* is true.  Without the cascade that decrement is the whole effect and every
\* other node's current_rank is unchanged; with it, the only further changes
\* are nodes forced to 0, whose accumulated cost also leaves spent.
C9_RefundEffect ==
    (last.op = "refund_point" /\ Changed) =>
       LET cost == ClampedCost(BeforeNode, BeforeNode.current_rank - 1)
           ran == Len(last.passes) > 0
           ids == NodeIdsOf(BeforeTree)
           forced == {id \in ids : AfterRank(id) # DecrementedRank(id)}
       IN  /\ ran <=> (last.before.ui_state.mode # "edit"
                         \/ last.before.project.settings.cascade_refunds)
           /\ ~ran =>
                /\ \A id \in ids : AfterRank(id) = DecrementedRank(id)
                /\ AfterTree.point_pool.spent = BeforeTree.point_pool.spent - cost
           /\ ran =>
                /\ \A id \in forced : AfterRank(id) = 0
                /\ AfterTree.point_pool.spent =
                      BeforeTree.point_pool.spent - cost
                      - SumOver([id \in forced |->
                                    AccumulatedCost(
                                        find_node(last.before, last.tree_id, id),
                                        DecrementedRank(id))],
                                forced)

\* an edit-mode refund with cascade_refunds off that left another allocated
\* node with unmet prerequisites untouched
C9_Witness ==
    /\ last.op = "refund_point"
    /\ Changed
    /\ last.before.ui_state.mode = "edit"
    /\ ~last.before.project.settings.cascade_refunds
    /\ AfterRank(last.node_id) = BeforeRank(last.node_id) - 1
    /\ \E id \in NodeIdsOf(BeforeTree) :
          /\ id # last.node_id
          /\ check_prerequisites(last.before, last.tree_id, id)
          /\ ~check_prerequisites(app_state, last.tree_id, id)
          /\ BeforeRank(id) > 0
          /\ AfterRank(id) = BeforeRank(id)

----------------------------------------------------------------------------
(* C10: refund permission *)

\* C10: can_refund_point answers can_refund = FALSE, and refund_point returns
\* the state unchanged, exactly when settings.allow_refunds is false, the tree
\* or node is missing, or current_rank = 0; otherwise the refund is permitted
\* in edit and in play mode, whatever the dependents are.
C10_RefundPermission ==
    last.op = "refund_point" =>
       LET refused == \/ ~last.before.project.settings.allow_refunds
                      \/ ~BeforeHasNode
                      \/ BeforeNode.current_rank = 0
       IN  /\ ~Changed <=> refused
           /\ can_refund_point(last.before, last.tree_id, last.node_id).can_refund
                 <=> ~refused

\* a play-mode refund that can_refund_point reported as cascading to an
\* allocated dependent, and that was carried out
C10_Witness ==
    /\ last.op = "refund_point"
    /\ last.before.ui_state.mode = "play"
    /\ Len(can_refund_point(last.before, last.tree_id, last.node_id).affected_nodes) > 0
    /\ Changed
    /\ ForcedNodes # {}

----------------------------------------------------------------------------
(* The queries of the validation engine, applied to stored trees.         *)
(* load_project takes the saved project and mode as they are: the nodes    *)
(* carry ranks, prerequisite_logic is any string, and the tree may hold    *)
(* one, two or three of the nodes A, B, C in any order, so that            *)
(* connections of the arrays below lose an endpoint.  The saved mode is    *)
(* play, where can_allocate_point consults the node status.                *)

\* current_rank of A, B, C
QueryRanks ==
    {r \in [1..3 -> 0..MaxRank] : \A i \in 1..3 : r[i] <= NodeMaxRanks[i]}

\* a stored tree: order is the nodes array as indices into NodeIds;
\* prerequisite_threshold of A, B, C is 1, 2, 3; spent is the sum over
\* the nodes
QueryTree(order, logics, ranks, connections) ==
    LET tree == [create_tree("T1", "T1") EXCEPT
                    !.nodes = [k \in 1..Len(order) |->
                                  [InitialNode(order[k], logics) EXCEPT
                                      !.current_rank = ranks[order[k]],
                                      !.prerequisite_threshold = <<1, 2, 3>>[order[k]]]],
                    !.connections = connections]
    IN  [tree EXCEPT !.point_pool.spent = calculate_spent_points(tree)]

\* the call, its arguments, the state it was given and what it returned
QueryRecord(op, tree_id, node_id, connection, before, result) ==
    [op |-> op, tree_id |-> tree_id, node_id |-> node_id,
     connection |-> connection, before |-> before, result |-> result]

\* the nodes array in and out of the order of NodeIds and with nodes
\* left out; prerequisite_logic also as the empty string and as a string
\* that is none of the logics; further connection arrays: a three-node
\* cycle, one edge, none, and a chain listed against its direction
InitQuery ==
    /\ \E order \in {<<1, 2, 3>>, <<3, 1, 2>>, <<1, 2>>, <<2>>},
          logics \in LogicAssignments \cup {<<"", "XOR", "XOR">>},
          ranks \in QueryRanks,
          connections \in ConnectionSets \cup
             {<<Conn("c1", "A", "B", 1), Conn("c2", "B", "C", 1),
                Conn("c3", "C", "A", 1)>>,
              <<Conn("c1", "A", "B", 2)>>,
              <<>>,
              <<Conn("c1", "B", "C", 1), Conn("c2", "A", "B", 1)>>} :
          app_state = [create_initial_state(DefaultSettings,
                          <<QueryTree(order, logics, ranks, connections)>>)
                          EXCEPT !.ui_state.mode = "play"]
    /\ last = QueryRecord("init", "T1", "A", <<>>, app_state, FALSE)

QueryTreeIds == {"T1", "T0"}

CheckPrerequisites(tree_id, node_id) ==
    /\ app_state' = state_after_query(app_state)
    /\ last' = QueryRecord("check_prerequisites", tree_id, node_id, <<>>, app_state,
                           check_prerequisites(app_state, tree_id, node_id))

\* asked about the connections that the stored tree holds
IsConnectionSatisfied(tree_id) ==
    \E connection \in Range(app_state.project.trees[1].connections) :
       /\ app_state' = state_after_query(app_state)
       /\ last' = QueryRecord("is_connection_satisfied", tree_id, "", connection,
                              app_state,
                              is_connection_satisfied(app_state, tree_id, connection))

GetNodeStatus(tree_id, node_id) ==
    /\ app_state' = state_after_query(app_state)
    /\ last' = QueryRecord("get_node_status", tree_id, node_id, <<>>, app_state,
                           get_node_status(app_state, tree_id, node_id))

CanAllocatePoint(tree_id, node_id) ==
    /\ app_state' = state_after_query(app_state)
    /\ last' = QueryRecord("can_allocate_point", tree_id, node_id, <<>>, app_state,
                           can_allocate_point(app_state, tree_id, node_id))

CheckTreeReachability(tree_id) ==
    /\ app_state' = state_after_query(app_state)
    /\ last' = QueryRecord("check_tree_reachability", tree_id, "", <<>>, app_state,
                           check_tree_reachability(app_state, tree_id))

\* validate_tree runs detect_cycle before its own result is complete; a
\* raised exception would leave validate_tree as well
ValidateTree(tree_id) ==
    /\ app_state' = state_after_query(app_state)
    /\ last' = QueryRecord("validate_tree", tree_id, "", <<>>, app_state,
                           validate_tree(app_state, tree_id))

DetectCycle(tree_id) ==
    /\ has_tree(app_state, tree_id)
    /\ app_state' = state_after_query(app_state)
    /\ last' = QueryRecord("detect_cycle", tree_id, "", <<>>, app_state,
                           detect_cycle(find_tree(app_state, tree_id)))

CanRefundPoint(tree_id, node_id) ==
    /\ app_state' = state_after_query(app_state)
    /\ last' = QueryRecord("can_refund_point", tree_id, node_id, <<>>, app_state,
                           can_refund_point(app_state, tree_id, node_id))

ValidateState ==
    /\ app_state' = state_after_query(app_state)
    /\ last' = QueryRecord("validate_state", "", "", <<>>, app_state,
                           validate_state(app_state))

NextQuery ==
    \/ \E a \in TreeNodeArgs : CanRefundPoint(a[1], a[2])
    \/ \E a \in TreeNodeArgs : CheckPrerequisites(a[1], a[2])
    \/ \E tree_id \in QueryTreeIds : IsConnectionSatisfied(tree_id)
    \/ \E a \in TreeNodeArgs : GetNodeStatus(a[1], a[2])
    \/ \E a \in TreeNodeArgs : CanAllocatePoint(a[1], a[2])
    \/ \E tree_id \in QueryTreeIds : CheckTreeReachability(tree_id)
    \/ \E tree_id \in QueryTreeIds : ValidateTree(tree_id)
    \/ \E tree_id \in QueryTreeIds : DetectCycle(tree_id)
    \/ ValidateState

SpecQuery == InitQuery /\ [][NextQuery]_vars

----------------------------------------------------------------------------
(* Properties of the queries.  last.before is the state the query was      *)
(* given, last.result what it returned.                                    *)

Incoming == incoming_connections(BeforeTree, last.node_id)

\* the connection's source exists and has at least the required rank
SourceHasRank(c) ==
    /\ has_node(last.before, last.tree_id, c.from_node_id)
    /\ find_node(last.before, last.tree_id, c.from_node_id).current_rank
          >= c.required_rank

\* B's only incoming connection comes from A and requires rank 2
OneConnectionFromAToB ==
    /\ last.node_id = "B"
    /\ Len(Incoming) = 1
    /\ Incoming[1].from_node_id = "A"
    /\ Incoming[1].required_rank = 2
    /\ has_node(last.before, last.tree_id, "A")

\* C12: check_prerequisites of an AND node is true iff every incoming
\* connection has a source of at least the required rank, of an OR node iff
\* at least one has, and of a node without incoming connection always; with
\* one AND connection A -> B that requires rank 2, A at rank 1 gives false
\* and A at rank 2 gives true
C12_AndOrEvaluation ==
    (last.op = "check_prerequisites" /\ BeforeHasNode) =>
        /\ Len(Incoming) = 0 => last.result = TRUE
        /\ (Len(Incoming) > 0 /\ BeforeNode.prerequisite_logic = "AND") =>
              (last.result <=> \A i \in 1..Len(Incoming) : SourceHasRank(Incoming[i]))
        /\ (Len(Incoming) > 0 /\ BeforeNode.prerequisite_logic = "OR") =>
              (last.result <=> \E i \in 1..Len(Incoming) : SourceHasRank(Incoming[i]))
        /\ (BeforeNode.prerequisite_logic = "AND" /\ OneConnectionFromAToB) =>
              /\ BeforeRank("A") = 1 => last.result = FALSE
              /\ BeforeRank("A") = 2 => last.result = TRUE

C12_Witness ==
    /\ last.op = "check_prerequisites"
    /\ BeforeHasNode
    /\ BeforeNode.prerequisite_logic = "AND"
    /\ OneConnectionFromAToB
    /\ BeforeRank("A") = 2
    /\ last.result = TRUE

\* sum of current_rank over the sources of the incoming connections
SourceRankSum ==
    SumOver([i \in 1..Len(Incoming) |->
                IF has_node(last.before, last.tree_id, Incoming[i].from_node_id)
                THEN BeforeRank(Incoming[i].from_node_id) ELSE 0],
            1..Len(Incoming))

IncomingSourceMissing ==
    \E i \in 1..Len(Incoming) :
       ~has_node(last.before, last.tree_id, Incoming[i].from_node_id)

\* first part of fail-closed: is_connection_satisfied is false when the source or
\* the target of the connection is absent from the tree
ConnectionFailClosed ==
    (/\ last.op = "is_connection_satisfied"
     /\ \/ ~has_node(last.before, last.tree_id, last.connection.from_node_id)
        \/ ~has_node(last.before, last.tree_id, last.connection.to_node_id)) =>
        last.result = FALSE

\* second part of fail-closed: check_prerequisites is false when the queried node id
\* is absent from the tree
AbsentNodeFailClosed ==
    (last.op = "check_prerequisites" /\ ~BeforeHasNode) => last.result = FALSE

\* third part of fail-closed: check_prerequisites is false when the logic is AND or
\* SUM and an incoming connection has a missing source
MissingSourceFailClosed ==
    (/\ last.op = "check_prerequisites"
     /\ BeforeHasNode
     /\ BeforeNode.prerequisite_logic \in {"AND", "SUM"}
     /\ IncomingSourceMissing) =>
        last.result = FALSE

\* C14: fail-closed on missing nodes: is_connection_satisfied is false when
\* the connection's source or target is absent; check_prerequisites is false
\* when the queried node id is absent, and when the logic is AND or SUM and
\* the group contains a connection whose source is missing
C14_FailClosed ==
    /\ ConnectionFailClosed
    /\ AbsentNodeFailClosed
    /\ MissingSourceFailClosed

\* the five values of NODE_STATUS
NodeStatuses == {"locked", "unlockable", "active", "maxed", "invalid"}

PrerequisitesUnsatisfied ==
    ~check_prerequisites(last.before, last.tree_id, last.node_id)

\* C15: get_node_status returns one of the five statuses, decided in this
\* order: INVALID if the tree or the node cannot be found; otherwise LOCKED
\* if the prerequisites are unsatisfied, whatever the rank; otherwise
\* UNLOCKABLE at rank 0; otherwise MAXED at current_rank = max_rank;
\* otherwise ACTIVE
C15_StatusDerivation ==
    last.op = "get_node_status" =>
        /\ last.result \in NodeStatuses
        /\ last.result = "invalid" <=> ~BeforeHasNode
        /\ BeforeHasNode =>
              /\ last.result = "locked" <=> PrerequisitesUnsatisfied
              /\ last.result = "unlockable" <=>
                    (~PrerequisitesUnsatisfied /\ BeforeNode.current_rank = 0)
              /\ last.result = "maxed" <=>
                    /\ ~PrerequisitesUnsatisfied
                    /\ BeforeNode.current_rank # 0
                    /\ BeforeNode.current_rank = BeforeNode.max_rank
              /\ last.result = "active" <=>
                    /\ ~PrerequisitesUnsatisfied
                    /\ BeforeNode.current_rank # 0
                    /\ BeforeNode.current_rank # BeforeNode.max_rank

\* a node at its max rank whose prerequisites are unsatisfied is LOCKED
C15_Witness ==
    /\ last.op = "get_node_status"
    /\ BeforeHasNode
    /\ BeforeNode.current_rank = BeforeNode.max_rank
    /\ PrerequisitesUnsatisfied
    /\ last.result = "locked"

\* the directed graph of a tree: its nodes, and an edge for every
\* connection between two of them
HasEdge(tree, a, b) ==
    /\ {a, b} \subseteq NodeIdsOf(tree)
    /\ \E i \in 1..Len(tree.connections) :
          /\ tree.connections[i].from_node_id = a
          /\ tree.connections[i].to_node_id = b

\* a path of at least one and at most k + 1 edges leads from a to b
RECURSIVE HasPath(_, _, _, _)
HasPath(tree, a, b, k) ==
    \/ HasEdge(tree, a, b)
    \/ /\ k > 0
       /\ \E c \in NodeIdsOf(tree) : HasEdge(tree, a, c) /\ HasPath(tree, c, b, k - 1)

HasCycle(tree) ==
    \E n \in NodeIdsOf(tree) : HasPath(tree, n, n, Len(tree.nodes))

\* s lists distinct nodes, each connected to the next and the last to the
\* first
IsGenuineCycle(tree, s) ==
    /\ Len(s) >= 1
    /\ \A i, j \in 1..Len(s) : i # j => s[i] # s[j]
    /\ \A i \in 1..Len(s) : HasEdge(tree, s[i], s[(i % Len(s)) + 1])

\* number of errors with the given code
ErrorCount(errors, code) == Cardinality({i \in 1..Len(errors) : errors[i].code = code})

\* nodes A, B, C in this order with the connections A -> B, B -> C, C -> A
ThreeCycleTree(tree) ==
    /\ [i \in 1..Len(tree.nodes) |-> tree.nodes[i].id] = <<"A", "B", "C">>
    /\ [i \in 1..Len(tree.connections) |->
           <<tree.connections[i].from_node_id, tree.connections[i].to_node_id>>]
          = <<(<<"A", "B">>), (<<"B", "C">>), (<<"C", "A">>)>>

\* C16: detect_cycle returns a cycle iff the graph of the connections has
\* one (a self-loop included); the returned sequence is a genuine cycle
\* without repeated nodes; for A -> B, B -> C, C -> A it is [A, B, C];
\* validate_tree reports exactly one ERR_CYCLIC_DEPENDENCY for a graph with
\* a cycle and none for an acyclic graph
C16_CycleDetection ==
    /\ last.op = "detect_cycle" =>
          /\ last.result.found <=> HasCycle(BeforeTree)
          /\ last.result.found => IsGenuineCycle(BeforeTree, last.result.cycle)
          /\ ThreeCycleTree(BeforeTree) => last.result.cycle = <<"A", "B", "C">>
    /\ (last.op = "validate_tree" /\ has_tree(last.before, last.tree_id)) =>
          ErrorCount(last.result.errors, "ERR_CYCLIC_DEPENDENCY")
             = IF HasCycle(BeforeTree) THEN 1 ELSE 0

\* a cycle that the search enters from a node outside it
C16_Witness ==
    /\ last.op = "detect_cycle"
    /\ last.result.found
    /\ Len(last.result.cycle) = 2
    /\ BeforeTree.nodes[1].id \notin Range(last.result.cycle)
    /\ HasPath(BeforeTree, BeforeTree.nodes[1].id, last.result.cycle[1], 3)

\* the sources of the incoming connections of node n
SourcesOf(tree, n) ==
    {tree.connections[i].from_node_id :
        i \in {j \in 1..Len(tree.connections) : tree.connections[j].to_node_id = n}}

NodeOf(tree, n) == tree.nodes[get_node_index(tree, n)]

\* the nodes that the rules of reachability add to R in one round
ReachableStep(tree, R) ==
    {n \in NodeIdsOf(tree) :
        \/ SourcesOf(tree, n) = {}
        \/ /\ logic_or_default(NodeOf(tree, n)) = "AND"
           /\ SourcesOf(tree, n) \subseteq R
        \/ /\ logic_or_default(NodeOf(tree, n)) \in {"OR", "SUM"}
           /\ SourcesOf(tree, n) \cap R # {}}

\* the least set closed under the rules: k rounds from the empty set
RECURSIVE LeastReachable(_, _)
LeastReachable(tree, k) ==
    IF k = 0 THEN {} ELSE ReachableStep(tree, LeastReachable(tree, k - 1))

Reverse(s) == [i \in 1..Len(s) |-> s[Len(s) + 1 - i]]

\* the state given to the query, with the nodes and the connections of its
\* tree listed in the opposite order
ReorderedBefore ==
    [last.before EXCEPT
        !.project.trees[1].nodes = Reverse(@),
        !.project.trees[1].connections = Reverse(@)]

\* C17: check_tree_reachability returns as unreachable exactly the nodes
\* outside the least set R that holds every node without incoming
\* connection, every AND node whose incoming sources are all in R and every
\* OR or SUM node with an incoming source in R; the order of nodes and
\* connections does not matter; an isolated node is never unreachable; a
\* node whose only parent is an unreachable AND node is unreachable
C17_Reachability ==
    (/\ last.op = "check_tree_reachability"
     /\ has_tree(last.before, last.tree_id)
     /\ ~last.result.raised) =>
        LET unreachable == Range(last.result.unreachable)
            reordered == check_tree_reachability(ReorderedBefore, last.tree_id)
        IN  /\ unreachable = NodeIdsOf(BeforeTree)
                                \ LeastReachable(BeforeTree, Len(BeforeTree.nodes) + 1)
            /\ ~reordered.raised
            /\ Range(reordered.unreachable) = unreachable
            /\ \A n \in NodeIdsOf(BeforeTree) :
                  is_orphan(BeforeTree, NodeOf(BeforeTree, n)) => n \notin unreachable
            /\ \A n \in NodeIdsOf(BeforeTree), p \in unreachable :
                  (/\ SourcesOf(BeforeTree, n) = {p}
                   /\ logic_or_default(NodeOf(BeforeTree, p)) = "AND") =>
                     n \in unreachable

\* a node is unreachable behind its only parent, an unreachable AND node,
\* while the root of the tree is reachable
C17_Witness ==
    /\ last.op = "check_tree_reachability"
    /\ has_tree(last.before, last.tree_id)
    /\ ~last.result.raised
    /\ NodeIdsOf(BeforeTree) \ Range(last.result.unreachable) # {}
    /\ \E n, p \in Range(last.result.unreachable) :
          /\ n # p
          /\ SourcesOf(BeforeTree, n) = {p}
          /\ logic_or_default(NodeOf(BeforeTree, p)) = "AND"

\* the queried node has an incoming connection and a prerequisite_logic
\* that is a string other than AND, OR and SUM (the empty string stands for
\* the default and is left out)
MalformedLogicQueried ==
    /\ BeforeHasNode
    /\ BeforeNode.prerequisite_logic \notin {"AND", "OR", "SUM", ""}
    /\ Len(Incoming) > 0

\* C18: for a node with an incoming connection and a malformed
\* prerequisite_logic, check_prerequisites returns false and get_node_status
\* returns LOCKED, so that can_allocate_point refuses the node in play mode
C18_MalformedLogicConservative ==
    /\ (last.op = "check_prerequisites" /\ MalformedLogicQueried) =>
          last.result = FALSE
    /\ (last.op = "get_node_status" /\ MalformedLogicQueried) =>
          last.result = "locked"
    /\ (/\ last.op = "can_allocate_point"
        /\ last.before.ui_state.mode = "play"
        /\ MalformedLogicQueried) =>
          ~last.result.can_allocate

\* C19: check_tree_reachability and validate_tree return a result without
\* raising on every tree, also when a connection from a reachable node has
\* a target that the tree does not hold
C19_NoCrash ==
    /\ last.op = "check_tree_reachability" => ~last.result.raised
    /\ last.op = "validate_tree" => last.result.is_valid \in BOOLEAN

\* the node has no incoming and no outgoing connection
Unconnected(tree, n) ==
    \A i \in 1..Len(tree.connections) :
       /\ tree.connections[i].from_node_id # n
       /\ tree.connections[i].to_node_id # n

\* the ids for which the warnings carry WARN_ORPHANED_NODE
OrphansReported(warnings) ==
    {warnings[i].ref : i \in {j \in 1..Len(warnings) :
                                 warnings[j].code = "WARN_ORPHANED_NODE"}}

\* C20: validate_tree emits WARN_ORPHANED_NODE for a node iff the node has
\* no incoming and no outgoing connection and the tree has at least 2 nodes
\* and at least 1 connection; without connections no node is reported
C20_OrphanWarning ==
    (last.op = "validate_tree" /\ has_tree(last.before, last.tree_id)) =>
        /\ OrphansReported(last.result.warnings) =
              {n \in NodeIdsOf(BeforeTree) :
                  /\ Unconnected(BeforeTree, n)
                  /\ Len(BeforeTree.nodes) >= 2
                  /\ Len(BeforeTree.connections) >= 1}
        /\ ErrorCount(last.result.warnings, "WARN_ORPHANED_NODE")
              = Cardinality(OrphansReported(last.result.warnings))
        /\ Len(BeforeTree.connections) = 0 =>
              OrphansReported(last.result.warnings) = {}

\* a tree of three nodes and one connection: the third node is reported
C20_Witness ==
    /\ last.op = "validate_tree"
    /\ has_tree(last.before, last.tree_id)
    /\ Len(BeforeTree.nodes) = 3
    /\ Len(BeforeTree.connections) = 1
    /\ OrphansReported(last.result.warnings) = {"C"}

----------------------------------------------------------------------------
(* The actions applied to stored projects.  load_project hands over the    *)
(* saved project: tree T1 with the nodes A, B, C, with or without a second *)
(* tree T2 that holds a node D, in edit or play mode.  Each step is one    *)
(* dispatch; last keeps the call, the state it was given and what it       *)
(* handed back.                                                            *)

\* number of dispatches that are followed
MaxSteps == 1

\* the second tree: one node with a point on it
SecondTree ==
    LET tree == [create_tree("T2", "T2") EXCEPT
                    !.nodes = <<[create_node("D") EXCEPT !.current_rank = 1]>>]
    IN  [tree EXCEPT !.point_pool.spent = calculate_spent_points(tree)]

\* total is the default, or what is spent already
EditTree(ranks, connections, exhausted) ==
    LET tree == QueryTree(<<1, 2, 3>>, <<"OR", "AND", "AND">>, ranks, connections)
    IN  IF exhausted THEN [tree EXCEPT !.point_pool.total = tree.point_pool.spent]
        ELSE tree

\* the call, its arguments, the state it was given, whether it handed back
\* the object it was given, the content of that object afterwards, and the
\* number of dispatches so far
EditRecord(op, tree_id, node_id, arg, before, result) ==
    [op |-> op, tree_id |-> tree_id, node_id |-> node_id, arg |-> arg,
     before |-> before, same_object |-> result.same_object,
     input |-> result.input, step |-> last.step + 1]

\* the stored projects: no points or every rank taken, a chain or a
\* diamond, refunds allowed or not, either mode, one tree or two
InitEdit ==
    /\ \E ranks \in {<<0, 0, 0>>, <<MaxRank, MaxRank, 1>>},
          connections \in
             {<<Conn("c1", "A", "B", 1), Conn("c2", "B", "C", 1)>>,
              <<Conn("c1", "A", "C", 1), Conn("c2", "B", "C", 2)>>},
          exhausted \in BOOLEAN,
          settings \in {DefaultSettings,
                        [allow_refunds |-> FALSE, cascade_refunds |-> FALSE]},
          mode \in {"edit", "play"}, others \in {<<>>, <<SecondTree>>} :
          app_state = [create_initial_state(settings,
                          <<EditTree(ranks, connections, exhausted)>> \o others)
                          EXCEPT !.ui_state.mode = mode]
    /\ last = [op |-> "init", tree_id |-> "T1", node_id |-> "A", arg |-> <<>>,
               before |-> app_state, same_object |-> TRUE, input |-> app_state,
               step |-> 0]

StepsLeft == last.step < MaxSteps

\* one dispatch of an action whose call is result
Dispatch(op, tree_id, node_id, arg, result) ==
    /\ app_state' = dispatch(result)
    /\ last' = EditRecord(op, tree_id, node_id, arg, app_state, result)

\* tree and node arguments: the nodes of T1 and T2, a node id that T1 does
\* not have, and a tree id that the project does not have
EditNodeArgs == TreeNodeArgs \cup {<<"T2", "D">>}

EditTreeIds == {"T1", "T2", "T0"}

\* connection arguments: the connections of T1, an id that T1 does not
\* have, and a tree that the project does not have
ConnectionArgs == {<<"T1", "c1">>, <<"T1", "c2">>, <<"T1", "c9">>, <<"T0", "c1">>}

EditAllocatePoint(tree_id, node_id) ==
    /\ StepsLeft
    /\ Dispatch("allocate_point", tree_id, node_id, <<>>,
                allocate_point_call(app_state, tree_id, node_id))

EditRefundPoint(tree_id, node_id) ==
    /\ StepsLeft
    /\ Dispatch("refund_point", tree_id, node_id, <<>>,
                refund_point_call(app_state, tree_id, node_id))

EditResetTree(tree_id) ==
    /\ StepsLeft
    /\ Dispatch("reset_tree", tree_id, "", <<>>, reset_tree_call(app_state, tree_id))

EditSetMode(mode) ==
    /\ StepsLeft
    /\ Dispatch("set_mode", "", "", mode, set_mode_call(app_state, mode))

\* id is what generate_id returns: an id that the project does not use
AddTree ==
    /\ StepsLeft
    /\ \E id \in {"T1", "T2", "T3"} \
                  {app_state.project.trees[i].id :
                      i \in 1..Len(app_state.project.trees)} :
          Dispatch("add_tree", id, "", <<>>, add_tree_call(app_state, id))

RemoveTree(tree_id) ==
    /\ StepsLeft
    /\ Dispatch("remove_tree", tree_id, "", <<>>, remove_tree_call(app_state, tree_id))

UpdateTree(tree_id, changes) ==
    /\ StepsLeft
    /\ Dispatch("update_tree", tree_id, "", changes,
                update_tree_call(app_state, tree_id, changes))

AddNode(tree_id) ==
    /\ StepsLeft
    /\ \E id \in {"A", "B", "C", "D", "E"} \
                  UNION {NodeIdsOf(app_state.project.trees[i]) :
                            i \in 1..Len(app_state.project.trees)} :
          Dispatch("add_node", tree_id, id, <<>>,
                   add_node_call(app_state, tree_id, id))

RemoveNode(tree_id, node_id) ==
    /\ StepsLeft
    /\ Dispatch("remove_node", tree_id, node_id, <<>>,
                remove_node_call(app_state, tree_id, node_id))

UpdateNode(tree_id, node_id, changes) ==
    /\ StepsLeft
    /\ Dispatch("update_node", tree_id, node_id, changes,
                update_node_call(app_state, tree_id, node_id, changes))

UpdateNodePosition(tree_id, node_id) ==
    /\ StepsLeft
    /\ Dispatch("update_node_position", tree_id, node_id, <<>>,
                update_node_position_call(app_state, tree_id, node_id))

AddConnection(tree_id, options) ==
    /\ StepsLeft
    /\ \E id \in {"c1", "c2", "c3", "c4"} \
                  UNION {{c.id : c \in Range(app_state.project.trees[i].connections)} :
                            i \in 1..Len(app_state.project.trees)} :
          Dispatch("add_connection", tree_id, id, options,
                   add_connection_call(app_state, tree_id, id, options))

RemoveConnection(tree_id, connection_id) ==
    /\ StepsLeft
    /\ Dispatch("remove_connection", tree_id, connection_id, <<>>,
                remove_connection_call(app_state, tree_id, connection_id))

UpdateConnection(tree_id, connection_id, changes) ==
    /\ StepsLeft
    /\ Dispatch("update_connection", tree_id, connection_id, changes,
                update_connection_call(app_state, tree_id, connection_id, changes))

\* validate_tree asked about a tree of the project as it stands: the
\* record keeps the edit that led to the state and adds the tree that was
\* validated and the answer
EditValidateTree(tree_id) ==
    /\ last.op # "validate_tree"
    /\ app_state' = state_after_query(app_state)
    /\ last' = [op |-> "validate_tree", tree_id |-> last.tree_id,
                node_id |-> last.node_id, arg |-> last.arg,
                before |-> last.before, same_object |-> last.same_object,
                input |-> last.input, step |-> last.step,
                edit |-> last.op, validated |-> tree_id,
                result |-> validate_tree(app_state, tree_id)]

\* the changes are those of the sidebar handlers (the point budget, the
\* maximum rank, the logic, or a field that is not part of the modelled
\* content) and one with a key that is none of the allowed_keys; the options of add_connection are a new pair, a pair that
\* exists in one of the stored trees, a self-loop, a target that is no
\* node, and a source left out
NextEdit ==
    \/ \E a \in EditNodeArgs : EditAllocatePoint(a[1], a[2])
    \/ \E a \in EditNodeArgs : EditRefundPoint(a[1], a[2])
    \/ \E tree_id \in EditTreeIds : EditResetTree(tree_id)
    \/ \E mode \in {"edit", "play", "view"} : EditSetMode(mode)
    \/ AddTree
    \/ \E tree_id \in EditTreeIds : RemoveTree(tree_id)
    \/ \E tree_id \in {"T1", "T0"},
          changes \in {[total_points |-> 1], [name |-> "x"]} :
          UpdateTree(tree_id, changes)
    \/ \E tree_id \in {"T1", "T0"} : AddNode(tree_id)
    \/ \E a \in EditNodeArgs : RemoveNode(a[1], a[2])
    \/ \E a \in EditNodeArgs,
          changes \in {[max_rank |-> 1], [prerequisite_logic |-> "SUM"],
                       [name |-> "x"], [current_rank |-> 1]} :
          UpdateNode(a[1], a[2], changes)
    \/ \E a \in EditNodeArgs : UpdateNodePosition(a[1], a[2])
    \/ \E tree_id \in {"T1", "T0"},
          options \in
             {[from_node_id |-> "C", to_node_id |-> "A", logic |-> "AND",
               required_rank |-> 1],
              [from_node_id |-> "B", to_node_id |-> "C", logic |-> "AND",
               required_rank |-> 2],
              [from_node_id |-> "B", to_node_id |-> "B", logic |-> "OR",
               required_rank |-> 1],
              [from_node_id |-> "A", to_node_id |-> "Z", logic |-> "AND",
               required_rank |-> 1],
              [from_node_id |-> "", to_node_id |-> "B", logic |-> "AND",
               required_rank |-> 1]} :
          AddConnection(tree_id, options)
    \/ \E a \in ConnectionArgs : RemoveConnection(a[1], a[2])
    \/ \E a \in ConnectionArgs,
          changes \in {[required_rank |-> 2], [logic |-> "XOR"]} :
          UpdateConnection(a[1], a[2], changes)
    \/ \E tree_id \in EditTreeIds : EditValidateTree(tree_id)

SpecEdit == InitEdit /\ [][NextEdit]_vars

----------------------------------------------------------------------------
(* Properties of the calls: which calls are rejections, and what a         *)
(* successful call changes.                                                *)

BeforeTreeIndex == get_tree_index(last.before, last.tree_id)
BeforeNodeIndex == get_node_index(BeforeTree, last.node_id)

\* the connection that a remove_connection or update_connection names
BeforeHasConnection ==
    /\ has_tree(last.before, last.tree_id)
    /\ \E i \in 1..Len(BeforeTree.connections) :
          BeforeTree.connections[i].id = last.node_id

\* add_connection cannot add the pair: an endpoint is left out or is no
\* node of the tree, or the pair is connected already
PairRefused ==
    \/ last.arg.from_node_id = ""
    \/ last.arg.to_node_id = ""
    \/ ~has_tree(last.before, last.tree_id)
    \/ ~({last.arg.from_node_id, last.arg.to_node_id} \subseteq NodeIdsOf(BeforeTree))
    \/ \E c \in Range(BeforeTree.connections) :
          c.from_node_id = last.arg.from_node_id /\ c.to_node_id = last.arg.to_node_id

\* the calls that cannot be carried out
CallRejected ==
    CASE last.op = "allocate_point" ->
            \/ ~BeforeHasNode
            \/ BeforeNode.current_rank >= BeforeNode.max_rank
            \/ BeforeTree.point_pool.total - BeforeTree.point_pool.spent
                  < ClampedCost(BeforeNode, BeforeNode.current_rank)
      [] last.op = "refund_point" ->
            \/ ~last.before.project.settings.allow_refunds
            \/ ~BeforeHasNode
            \/ BeforeNode.current_rank = 0
      [] last.op \in {"reset_tree", "remove_tree", "update_tree", "add_node"} ->
            ~has_tree(last.before, last.tree_id)
      [] last.op \in {"remove_node", "update_node", "update_node_position"} ->
            ~BeforeHasNode
      [] last.op = "add_connection" -> PairRefused
      [] last.op \in {"remove_connection", "update_connection"} ->
            ~BeforeHasConnection
      [] last.op = "set_mode" -> last.arg \notin {"edit", "play"}
      [] OTHER -> FALSE

\* the operations that the no-partial-mutation property is about
LedgerAndEditOps ==
    {"allocate_point", "refund_point", "reset_tree", "add_tree", "remove_tree",
     "update_tree", "add_node", "remove_node", "update_node",
     "update_node_position", "add_connection", "remove_connection",
     "update_connection"}

\* everything but the named tree is as it was
OtherPartsKept ==
    /\ app_state.project.settings = last.before.project.settings
    /\ app_state.ui_state = last.before.ui_state
    /\ Len(app_state.project.trees) = Len(last.before.project.trees)
    /\ \A i \in 1..Len(app_state.project.trees) :
          i # BeforeTreeIndex =>
             app_state.project.trees[i] = last.before.project.trees[i]

\* the tree kept its shape: same nodes apart from current_rank, same
\* connections, same total
ShapeKept ==
    /\ AfterTree.connections = BeforeTree.connections
    /\ AfterTree.point_pool.total = BeforeTree.point_pool.total
    /\ Len(AfterTree.nodes) = Len(BeforeTree.nodes)
    /\ \A i \in 1..Len(AfterTree.nodes) :
          [AfterTree.nodes[i] EXCEPT !.current_rank = 0]
             = [BeforeTree.nodes[i] EXCEPT !.current_rank = 0]

\* what was taken off spent is what the lowered ranks had cost
LedgerMoved ==
    BeforeTree.point_pool.spent - AfterTree.point_pool.spent
       = CostSum(BeforeTree) - CostSum(AfterTree)

\* no node of the tree holds points with unmet prerequisites
CascadeComplete ==
    \A i \in 1..Len(AfterTree.nodes) :
       AfterTree.nodes[i].current_rank > 0 =>
          check_prerequisites(app_state, last.tree_id, AfterTree.nodes[i].id)

\* the cascade runs with the refund: always outside edit mode, in edit mode
\* when the setting asks for it
CascadeRuns ==
    \/ last.before.ui_state.mode # "edit"
    \/ last.before.project.settings.cascade_refunds

\* the ranks of the tree, apart from the node of the call, are as they were
OtherRanksKept ==
    \A i \in 1..Len(AfterTree.nodes) :
       i # BeforeNodeIndex =>
          AfterTree.nodes[i].current_rank = BeforeTree.nodes[i].current_rank

\* an accepted call made the whole of its change
WholeChange ==
    CASE last.op = "allocate_point" ->
            /\ OtherPartsKept /\ ShapeKept /\ OtherRanksKept
            /\ AfterNode.current_rank = BeforeNode.current_rank + 1
            /\ AfterTree.point_pool.spent = BeforeTree.point_pool.spent
                  + ClampedCost(BeforeNode, BeforeNode.current_rank)
      [] last.op = "refund_point" ->
            /\ OtherPartsKept /\ ShapeKept /\ LedgerMoved
            /\ AfterNode.current_rank < BeforeNode.current_rank
            /\ \A i \in 1..Len(AfterTree.nodes) :
                  AfterTree.nodes[i].current_rank <= BeforeTree.nodes[i].current_rank
            /\ CascadeRuns => CascadeComplete
            /\ ~CascadeRuns =>
                  /\ OtherRanksKept
                  /\ AfterNode.current_rank = BeforeNode.current_rank - 1
      [] last.op = "reset_tree" ->
            /\ OtherPartsKept /\ ShapeKept
            /\ AfterTree.point_pool.spent = 0
            /\ \A i \in 1..Len(AfterTree.nodes) : AfterTree.nodes[i].current_rank = 0
      [] last.op = "add_tree" ->
            /\ app_state.project.settings = last.before.project.settings
            /\ Len(app_state.project.trees) = Len(last.before.project.trees) + 1
            /\ SubSeq(app_state.project.trees, 1, Len(last.before.project.trees))
                  = last.before.project.trees
            /\ AfterTree.id = last.tree_id
            /\ AfterTree.nodes = <<>> /\ AfterTree.connections = <<>>
            /\ AfterTree.point_pool.spent = 0
      [] last.op = "remove_tree" ->
            /\ app_state.project.settings = last.before.project.settings
            /\ Len(app_state.project.trees) = Len(last.before.project.trees) - 1
            /\ ~has_tree(app_state, last.tree_id)
            /\ Range(app_state.project.trees)
                  = Range(last.before.project.trees) \ {BeforeTree}
            /\ app_state.ui_state.active_tree_id # last.tree_id
      [] last.op = "update_tree" ->
            /\ OtherPartsKept
            /\ AfterTree.nodes = BeforeTree.nodes
            /\ AfterTree.connections = BeforeTree.connections
            /\ AfterTree.point_pool.spent = BeforeTree.point_pool.spent
            /\ "total_points" \in DOMAIN last.arg =>
                  AfterTree.point_pool.total = last.arg.total_points
      [] last.op = "add_node" ->
            /\ OtherPartsKept
            /\ AfterTree.connections = BeforeTree.connections
            /\ AfterTree.point_pool = BeforeTree.point_pool
            /\ Len(AfterTree.nodes) = Len(BeforeTree.nodes) + 1
            /\ SubSeq(AfterTree.nodes, 1, Len(BeforeTree.nodes)) = BeforeTree.nodes
            /\ AfterNode.id = last.node_id /\ AfterNode.current_rank = 0
      [] last.op = "remove_node" ->
            /\ OtherPartsKept
            /\ AfterTree.point_pool = BeforeTree.point_pool
            /\ last.node_id \notin NodeIdsOf(AfterTree)
            /\ Range(AfterTree.nodes) = Range(BeforeTree.nodes) \ {BeforeNode}
            /\ Range(AfterTree.connections) =
                  {c \in Range(BeforeTree.connections) :
                      last.node_id \notin {c.from_node_id, c.to_node_id}}
      [] last.op = "update_node" ->
            /\ OtherPartsKept
            /\ AfterTree.connections = BeforeTree.connections
            /\ AfterTree.point_pool = BeforeTree.point_pool
            /\ Len(AfterTree.nodes) = Len(BeforeTree.nodes)
            /\ \A i \in 1..Len(AfterTree.nodes) :
                  i # BeforeNodeIndex => AfterTree.nodes[i] = BeforeTree.nodes[i]
            /\ \A key \in DOMAIN BeforeNode :
                  AfterNode[key] = IF key \in DOMAIN last.arg \ {"id", "current_rank"}
                                   THEN last.arg[key] ELSE BeforeNode[key]
      [] last.op = "update_node_position" -> app_state = last.before
      [] last.op = "add_connection" ->
            /\ OtherPartsKept
            /\ AfterTree.nodes = BeforeTree.nodes
            /\ AfterTree.point_pool = BeforeTree.point_pool
            /\ Len(AfterTree.connections) = Len(BeforeTree.connections) + 1
            /\ SubSeq(AfterTree.connections, 1, Len(BeforeTree.connections))
                  = BeforeTree.connections
            /\ LET added == AfterTree.connections[Len(AfterTree.connections)]
               IN  /\ added.id = last.node_id
                   /\ added.from_node_id = last.arg.from_node_id
                   /\ added.to_node_id = last.arg.to_node_id
                   /\ added.required_rank = last.arg.required_rank
                   /\ added.logic = last.arg.logic
      [] last.op = "remove_connection" ->
            /\ OtherPartsKept
            /\ AfterTree.nodes = BeforeTree.nodes
            /\ AfterTree.point_pool = BeforeTree.point_pool
            /\ Len(AfterTree.connections) = Len(BeforeTree.connections) - 1
            /\ Range(AfterTree.connections) =
                  {c \in Range(BeforeTree.connections) : c.id # last.node_id}
      [] last.op = "update_connection" ->
            /\ OtherPartsKept
            /\ AfterTree.nodes = BeforeTree.nodes
            /\ AfterTree.point_pool = BeforeTree.point_pool
            /\ Len(AfterTree.connections) = Len(BeforeTree.connections)
            /\ \A i \in 1..Len(AfterTree.connections) :
                  LET was == BeforeTree.connections[i]
                      now == AfterTree.connections[i]
                  IN  IF was.id # last.node_id THEN now = was
                      ELSE /\ [now EXCEPT !.required_rank = 0, !.logic = ""]
                                = [was EXCEPT !.required_rank = 0, !.logic = ""]
                           /\ "required_rank" \in DOMAIN last.arg =>
                                 now.required_rank = last.arg.required_rank
                           /\ "required_rank" \notin DOMAIN last.arg =>
                                 now.required_rank = was.required_rank
                           /\ now.logic =
                                 IF "logic" \in DOMAIN last.arg
                                    /\ last.arg.logic \in {"AND", "OR"}
                                 THEN last.arg.logic ELSE was.logic
      [] OTHER -> TRUE

\* C11: no partial mutation.  Every action (allocate_point, refund_point,
\* reset_tree, add, remove and update of nodes, connections and trees)
\* leaves its input state object unmodified; on rejection it returns the
\* very same input state, on success a distinct new state that reflects
\* the whole change (for refund: the rank decrement and the complete
\* cascade together).
C11_NoPartialMutation ==
    last.op \in LedgerAndEditOps =>
       /\ last.input = last.before
       /\ CallRejected => last.same_object /\ app_state = last.before
       /\ ~CallRejected => ~last.same_object /\ WholeChange

\* a refund was accepted, and its cascade took the points of a dependent
\* node along with the decrement
C11_Witness ==
    /\ last.op = "refund_point"
    /\ ~CallRejected
    /\ ~last.same_object
    /\ last.input = last.before
    /\ AfterNode.current_rank = BeforeNode.current_rank - 1
    /\ \E i \in 1..Len(AfterTree.nodes) :
          /\ i # BeforeNodeIndex
          /\ BeforeTree.nodes[i].current_rank > 0
          /\ AfterTree.nodes[i].current_rank = 0

----------------------------------------------------------------------------
(* Properties of the structural validator. *)

ValidatedTree == find_tree(last.before, last.tree_id)

\* the entries of a list of errors or warnings that carry the code
WithCode(entries, code) == {i \in 1..Len(entries) : entries[i].code = code}

\* the connections, by position, whose source or target is no node of the tree
DanglingSources(tree) ==
    {i \in 1..Len(tree.connections) :
        tree.connections[i].from_node_id \notin NodeIdsOf(tree)}

DanglingTargets(tree) ==
    {i \in 1..Len(tree.connections) :
        tree.connections[i].to_node_id \notin NodeIdsOf(tree)}

\* C21: dangling endpoints are reported, not dropped.  validate_tree emits
\* ERR_INVALID_CONNECTION_SOURCE for each connection whose from_node_id is
\* absent from the tree and ERR_INVALID_CONNECTION_TARGET for each whose
\* to_node_id is absent, and none otherwise; is_valid is true iff the error
\* list is empty.
C21_DanglingEndpointsReported ==
    last.op = "validate_tree" =>
       /\ last.result.is_valid <=> (last.result.errors = <<>>)
       /\ has_tree(last.before, last.tree_id) =>
             LET errors == last.result.errors
                 sources == WithCode(errors, "ERR_INVALID_CONNECTION_SOURCE")
                 targets == WithCode(errors, "ERR_INVALID_CONNECTION_TARGET")
             IN  /\ Cardinality(sources) = Cardinality(DanglingSources(ValidatedTree))
                 /\ Cardinality(targets) = Cardinality(DanglingTargets(ValidatedTree))
                 /\ {errors[i].ref : i \in sources} =
                       {ValidatedTree.connections[i].id :
                           i \in DanglingSources(ValidatedTree)}
                 /\ {errors[i].ref : i \in targets} =
                       {ValidatedTree.connections[i].id :
                           i \in DanglingTargets(ValidatedTree)}

\* a tree with a dangling source and a dangling target was validated
C21_Witness ==
    /\ last.op = "validate_tree"
    /\ has_tree(last.before, last.tree_id)
    /\ DanglingSources(ValidatedTree) # {}
    /\ DanglingTargets(ValidatedTree) # {}
    /\ ~last.result.is_valid
    /\ WithCode(last.result.errors, "ERR_INVALID_CONNECTION_SOURCE") # {}
    /\ WithCode(last.result.errors, "ERR_INVALID_CONNECTION_TARGET") # {}

\* the queries that are promised to be read-only
ReadOnlyQueries ==
    {"get_node_status", "check_prerequisites", "can_allocate_point",
     "can_refund_point", "validate_tree", "validate_state",
     "check_tree_reachability"}

\* the answer of the same query, asked again of the state as it is now
AskedAgain ==
    CASE last.op = "get_node_status" ->
            get_node_status(app_state, last.tree_id, last.node_id)
      [] last.op = "check_prerequisites" ->
            check_prerequisites(app_state, last.tree_id, last.node_id)
      [] last.op = "can_allocate_point" ->
            can_allocate_point(app_state, last.tree_id, last.node_id)
      [] last.op = "can_refund_point" ->
            can_refund_point(app_state, last.tree_id, last.node_id)
      [] last.op = "validate_tree" -> validate_tree(app_state, last.tree_id)
      [] last.op = "validate_state" -> validate_state(app_state)
      [] last.op = "check_tree_reachability" ->
            check_tree_reachability(app_state, last.tree_id)

----------------------------------------------------------------------------
(* Properties of the point pool. *)

PoolNow == find_tree(app_state, "T1").point_pool
PoolBefore == find_tree(last.before, "T1").point_pool

TreeValidated == find_tree(app_state, last.validated)

\* C24: the structural validator reports a violation of spent <= total.
\* validate_tree returns a warning or error for every tree whose
\* point_pool.spent is greater than point_pool.total (for example after
\* update_tree lowers total_points below the spent amount).
C24_OverspentReported ==
    (/\ last.op = "validate_tree"
     /\ has_tree(app_state, last.validated)
     /\ TreeValidated.point_pool.spent > TreeValidated.point_pool.total)
    => last.result.errors \o last.result.warnings # <<>>

----------------------------------------------------------------------------
(* Round trips: one allocate_point on a stored tree, then one refund_point. *)
(* The record of the refund keeps the state before the allocation (start)   *)
(* and the node that was allocated to.                                      *)

RoundTripRecord(op, tree_id, node_id, start, allocated, before, passes) ==
    [op |-> op, tree_id |-> tree_id, node_id |-> node_id, start |-> start,
     allocated |-> allocated, before |-> before, passes |-> passes]

InitRoundTrip ==
    /\ \E logics \in LogicAssignments, ranks \in QueryRanks,
          connections \in ConnectionSets \cup
             {<<Conn("c1", "A", "B", 2), Conn("c2", "A", "C", 1),
                Conn("c3", "B", "C", 1)>>},
          settings \in {DefaultSettings,
                        [allow_refunds |-> TRUE, cascade_refunds |-> TRUE],
                        [allow_refunds |-> FALSE, cascade_refunds |-> FALSE]},
          mode \in {"edit", "play"} :
          app_state = [create_initial_state(settings,
                          <<QueryTree(<<1, 2, 3>>, logics, ranks, connections)>>)
                          EXCEPT !.ui_state.mode = mode]
    /\ last = RoundTripRecord("init", "T1", "A", app_state, <<>>, app_state, <<>>)

RoundTripAllocate(tree_id, node_id) ==
    /\ last.op = "init"
    /\ app_state' = allocate_point(app_state, tree_id, node_id)
    /\ last' = RoundTripRecord("allocate_point", tree_id, node_id, app_state,
                               <<tree_id, node_id>>, app_state, <<>>)

RoundTripRefund(tree_id, node_id) ==
    /\ last.op = "allocate_point"
    /\ app_state' = refund_point(app_state, tree_id, node_id)
    /\ last' = RoundTripRecord("refund_point", tree_id, node_id, last.start,
                               last.allocated, app_state,
                               refund_cascade(app_state, tree_id, node_id).passes)

NextRoundTrip ==
    \/ \E a \in TreeNodeArgs : RoundTripAllocate(a[1], a[2])
    \/ \E a \in TreeNodeArgs : RoundTripRefund(a[1], a[2])

SpecRoundTrip == InitRoundTrip /\ [][NextRoundTrip]_vars

\* a successful allocate_point was followed at once by refund_point of the
\* same node, and the refund's cascade, if it ran, refunded no node
RoundTripMade ==
    /\ last.op = "refund_point"
    /\ last.allocated = <<last.tree_id, last.node_id>>
    /\ last.before # last.start
    /\ \A i \in 1..Len(last.passes) : ~last.passes[i].changed

\* every node's current_rank and the tree's spent are those of the start
RanksAndSpentRestored ==
    LET now == find_tree(app_state, "T1")
        start == find_tree(last.start, "T1")
    IN  /\ now.point_pool.spent = start.point_pool.spent
        /\ \A i \in 1..Len(now.nodes) :
              now.nodes[i].current_rank = start.nodes[i].current_rank

\* C25: allocate/refund round trip with clamped costs.  For any node and any
\* rank (also ranks beyond the length of cost_per_rank), a successful
\* allocate_point followed at once by refund_point of the same node, when no
\* cascade refund is triggered, restores every node's current_rank and
\* point_pool.spent to their values before the allocate.
C25_RoundTrip == RoundTripMade => RanksAndSpentRestored

\* C25, amended: the same, for a project whose settings allow refunds
C25_RoundTripWhenRefundsAllowed ==
    (RoundTripMade /\ last.start.project.settings.allow_refunds)
       => RanksAndSpentRestored

\* the round trip was made on B from rank 1, whose second rank lies beyond
\* its one-entry cost_per_rank, and on the way back the cascade ran
C25_Witness ==
    /\ RoundTripMade
    /\ last.start.project.settings.allow_refunds
    /\ last.node_id = "B"
    /\ find_node(last.start, "T1", "B").current_rank
          >= Len(find_node(last.start, "T1", "B").cost_per_rank)
    /\ find_node(last.before, "T1", "B").current_rank
          = find_node(last.start, "T1", "B").current_rank + 1
    /\ last.passes # <<>>
    /\ RanksAndSpentRestored

----------------------------------------------------------------------------
(* Properties of the cascade report. *)

\* the tree after refund_point on the state that can_refund_point was given
TreeAfterRefund ==
    find_tree(refund_point(last.before, last.tree_id, last.node_id), last.tree_id)

\* the refund forces the node to rank 0: it holds points before and none after
ForcedToZero(id) ==
    /\ has_node(last.before, last.tree_id, id)
    /\ find_node(last.before, last.tree_id, id).current_rank > 0
    /\ \A i \in 1..Len(TreeAfterRefund.nodes) :
          TreeAfterRefund.nodes[i].id = id =>
             TreeAfterRefund.nodes[i].current_rank = 0

\* the nodes that a connection from the refunded node leads to
DirectDependents ==
    {c.to_node_id : c \in {d \in Range(find_tree(last.before, last.tree_id).connections) :
                              d.from_node_id = last.node_id}} \ {last.node_id}

\* the tree is one that the editor builds: every node's logic is AND, OR or
\* SUM, and every connection joins two different nodes of the tree
EditorBuilt(tree) ==
    /\ \A i \in 1..Len(tree.nodes) :
          tree.nodes[i].prerequisite_logic \in {"AND", "OR", "SUM"}
    /\ \A c \in Range(tree.connections) :
          /\ c.from_node_id # c.to_node_id
          /\ {c.from_node_id, c.to_node_id} \subseteq NodeIdsOf(tree)

\* the points are where play mode puts them: every node that holds points
\* has its prerequisites met
PlayedInOrder(state, tree_id) ==
    \A i \in 1..Len(find_tree(state, tree_id).nodes) :
       find_tree(state, tree_id).nodes[i].current_rank > 0 =>
          check_prerequisites(state, tree_id, find_tree(state, tree_id).nodes[i].id)

\* can_refund_point answered for a node that holds points, in play mode, on
\* a tree that the editor builds and whose points were played in order
ReportAsked ==
    /\ last.op = "can_refund_point"
    /\ last.before.ui_state.mode = "play"
    /\ has_tree(last.before, last.tree_id)
    /\ EditorBuilt(find_tree(last.before, last.tree_id))
    /\ PlayedInOrder(last.before, last.tree_id)
    /\ last.result.can_refund

\* a listed node is one that the refund forces to rank 0
ListedOnlyIfForced ==
    ReportAsked => \A id \in Range(last.result.affected_nodes) : ForcedToZero(id)

\* a direct dependent that the refund forces to rank 0 is listed
ForcedDependentsListed ==
    ReportAsked =>
       \A id \in DirectDependents :
          ForcedToZero(id) => id \in Range(last.result.affected_nodes)

\* C26: accuracy of the cascade report.  In play mode, can_refund_point
\* lists a node in affected_nodes only if refund_point applied to the same
\* state forces that node to rank 0; in particular a dependent with OR logic
\* that still has another satisfied parent is not listed, and a directly
\* dependent node that the refund forces to 0 is listed.
C26_CascadeReportAccurate == ListedOnlyIfForced /\ ForcedDependentsListed

----------------------------------------------------------------------------
(* Properties of is_connection_satisfied. *)

ConnectionSource == find_node(last.before, last.tree_id, last.connection.from_node_id)
ConnectionTarget == find_node(last.before, last.tree_id, last.connection.to_node_id)

\* is_connection_satisfied was asked about a connection between two nodes
\* of the tree
ConnectionAsked ==
    /\ last.op = "is_connection_satisfied"
    /\ has_node(last.before, last.tree_id, last.connection.from_node_id)
    /\ has_node(last.before, last.tree_id, last.connection.to_node_id)

\* C27: per-connection satisfaction.  For a connection whose target node
\* uses SUM logic, is_connection_satisfied is true exactly when the target's
\* whole-group SUM check (check_prerequisites of the target) is true; for a
\* target with AND or OR logic it is true iff source.current_rank >=
\* connection.required_rank.
C27_PerConnection ==
    ConnectionAsked =>
       /\ ConnectionTarget.prerequisite_logic = "SUM" =>
             (last.result <=>
                 check_prerequisites(last.before, last.tree_id,
                                     last.connection.to_node_id))
       /\ ConnectionTarget.prerequisite_logic \in {"AND", "OR"} =>
             (last.result <=>
                 ConnectionSource.current_rank >= last.connection.required_rank)

\* a connection into a SUM node is satisfied through the group although its
\* own source is below the connection's required_rank
C27_Witness ==
    /\ ConnectionAsked
    /\ ConnectionTarget.prerequisite_logic = "SUM"
    /\ ConnectionSource.current_rank < last.connection.required_rank
    /\ last.result = TRUE
    /\ check_prerequisites(last.before, last.tree_id, last.connection.to_node_id)

----------------------------------------------------------------------------
(* Building a tree: add_node, remove_node, add_connection and              *)
(* remove_connection on a tree that starts empty.                          *)

\* most nodes and connections that the tree is grown to
MaxNodes == 2
MaxConnections == 2

BuildLetters == <<"A", "B", "C", "D", "E">>
BuildNumbers == <<"c1", "c2", "c3", "c4">>

\* generate_id: an id that the tree does not hold
BuildNodeId(tree) ==
    BuildLetters[CHOOSE i \in 1..Len(BuildLetters) :
                    /\ BuildLetters[i] \notin NodeIdsOf(tree)
                    /\ \A j \in 1..(i - 1) : BuildLetters[j] \in NodeIdsOf(tree)]

BuildConnectionId(tree) ==
    BuildNumbers[CHOOSE i \in 1..Len(BuildNumbers) :
                    /\ \A c \in Range(tree.connections) : c.id # BuildNumbers[i]
                    /\ \A j \in 1..(i - 1) :
                          \E c \in Range(tree.connections) : c.id = BuildNumbers[j]]

\* the node ids that the calls name: those the tree can hold, and one that
\* it never holds
BuildNodeIds == {BuildLetters[i] : i \in 1..MaxNodes} \cup {"Z"}

BuildRecord(op, node_id, arg, before, result) ==
    [op |-> op, tree_id |-> "T1", node_id |-> node_id, arg |-> arg,
     before |-> before, same_object |-> result.same_object, input |-> result.input]

InitBuild ==
    /\ app_state = create_initial_state(DefaultSettings, <<create_tree("T1", "T1")>>)
    /\ last = BuildRecord("init", "", <<>>, app_state, call(app_state, TRUE, app_state))

BuildTree == find_tree(app_state, "T1")

BuildAddNode ==
    /\ Len(BuildTree.nodes) < MaxNodes
    /\ LET result == add_node_call(app_state, "T1", BuildNodeId(BuildTree))
       IN  /\ app_state' = dispatch(result)
           /\ last' = BuildRecord("add_node", BuildNodeId(BuildTree), <<>>,
                                  app_state, result)

BuildRemoveNode(node_id) ==
    LET result == remove_node_call(app_state, "T1", node_id)
    IN  /\ app_state' = dispatch(result)
        /\ last' = BuildRecord("remove_node", node_id, <<>>, app_state, result)

BuildAddConnection(options) ==
    /\ Len(BuildTree.connections) < MaxConnections
    /\ LET result == add_connection_call(app_state, "T1",
                                         BuildConnectionId(BuildTree), options)
       IN  /\ app_state' = dispatch(result)
           /\ last' = BuildRecord("add_connection", BuildConnectionId(BuildTree),
                                  options, app_state, result)

BuildRemoveConnection(connection_id) ==
    LET result == remove_connection_call(app_state, "T1", connection_id)
    IN  /\ app_state' = dispatch(result)
        /\ last' = BuildRecord("remove_connection", connection_id, <<>>,
                               app_state, result)

\* the options of add_connection are those that the canvas passes (two
\* different nodes), and options with the source left out
NextBuild ==
    \/ BuildAddNode
    \/ \E node_id \in BuildNodeIds : BuildRemoveNode(node_id)
    \/ \E options \in
             {[from_node_id |-> pair[1], to_node_id |-> pair[2], logic |-> "AND",
               required_rank |-> 1] :
                 pair \in {p \in BuildNodeIds \X BuildNodeIds : p[1] # p[2]}}
             \cup {[from_node_id |-> "", to_node_id |-> "A", logic |-> "AND",
                    required_rank |-> 1]} :
          BuildAddConnection(options)
    \/ \E connection_id \in {BuildNumbers[i] : i \in 1..(MaxConnections + 1)} :
          BuildRemoveConnection(connection_id)

SpecBuild == InitBuild /\ [][NextBuild]_vars

\* every connection joins nodes that the tree holds
EndpointsPresent(tree) ==
    \A c \in Range(tree.connections) :
       {c.from_node_id, c.to_node_id} \subseteq NodeIdsOf(tree)

\* no two connections join the same source to the same target
PairsDistinct(tree) ==
    \A i, j \in 1..Len(tree.connections) :
       (/\ tree.connections[i].from_node_id = tree.connections[j].from_node_id
        /\ tree.connections[i].to_node_id = tree.connections[j].to_node_id)
       => i = j

\* C28: connection integrity under editing.  Starting from an empty tree,
\* after any sequence of add_node, remove_node, add_connection and
\* remove_connection, every connection's from_node_id and to_node_id name
\* nodes present in the tree and no two connections share the same
\* (from, to) pair; remove_node removes every connection that references the
\* removed node; add_connection with a missing endpoint or a duplicate pair
\* returns the state unchanged.
C28_ConnectionIntegrity ==
    /\ EndpointsPresent(BuildTree)
    /\ PairsDistinct(BuildTree)
    /\ (last.op = "remove_node" /\ BeforeHasNode) =>
          /\ last.node_id \notin NodeIdsOf(BuildTree)
          /\ Range(BuildTree.connections) =
                {c \in Range(BeforeTree.connections) :
                    last.node_id \notin {c.from_node_id, c.to_node_id}}
    /\ (last.op = "add_connection" /\ PairRefused) =>
          /\ last.same_object
          /\ app_state = last.before

\* remove_node took a node away together with a connection into it and a
\* connection out of it
C28_Witness ==
    /\ last.op = "remove_node"
    /\ BeforeHasNode
    /\ \E c \in Range(BeforeTree.connections) : c.to_node_id = last.node_id
    /\ \E c \in Range(BeforeTree.connections) : c.from_node_id = last.node_id
    /\ BuildTree.connections = <<>>
    /\ Len(BuildTree.nodes) = Len(BeforeTree.nodes) - 1

----------------------------------------------------------------------------
(* Properties of the property edits: what remove_node and update_node      *)
(* leave of the bookkeeping of a tree.                                     *)

\* remove_node took away a node that had points, from a tree whose spent
\* was the sum over its nodes, and validate_tree was asked about that tree
RemovedRankedNode ==
    /\ last.op = "validate_tree"
    /\ last.edit = "remove_node"
    /\ last.validated = last.tree_id
    /\ BeforeHasNode
    /\ BeforeNode.current_rank > 0
    /\ BeforeTree.point_pool.spent = calculate_spent_points(BeforeTree)
    /\ ~ has_node(app_state, last.tree_id, last.node_id)

\* C29: conservation across node removal.  After remove_node removes a node
\* with current_rank > 0 from a tree whose spent matched the recomputed sum,
\* validate_tree still reports no WARN_POINT_POOL_MISMATCH for that tree.
C29_RemovalConservesPool ==
    RemovedRankedNode =>
       WithCode(last.result.warnings, "WARN_POINT_POOL_MISMATCH") = {}

\* the nodes of every tree of the project
AllNodes(state) ==
    UNION {Range(state.project.trees[i].nodes) :
              i \in 1..Len(state.project.trees)}

\* C30: rank bound under property edits.  In every state reachable by any
\* sequence of actions, including update_node changes of max_rank on a node
\* that already has points, every node satisfies max_rank >= 1 and
\* 0 <= current_rank <= max_rank.
C30_RankBound ==
    \A node \in AllNodes(app_state) :
       /\ node.max_rank >= 1
       /\ 0 <= node.current_rank
       /\ node.current_rank <= node.max_rank

----------------------------------------------------------------------------
(* Properties of the frame: what the actions outside the ledger leave of   *)
(* the ranks and of the spent points.                                      *)

\* the actions that are no allocation, refund or reset
OutsideLedger ==
    {"add_tree", "update_tree", "add_node", "update_node",
     "update_node_position", "add_connection", "remove_connection",
     "update_connection", "set_mode"}

\* every tree of before is a tree of after with the same spent, and every
\* node of it is a node of after with the same current_rank
RanksAndSpentKept(before, after) ==
    \A i \in 1..Len(before.project.trees) :
       LET tree == before.project.trees[i]
       IN  /\ has_tree(after, tree.id)
           /\ find_tree(after, tree.id).point_pool.spent = tree.point_pool.spent
           /\ \A node \in Range(tree.nodes) :
                 /\ has_node(after, tree.id, node.id)
                 /\ find_node(after, tree.id, node.id).current_rank =
                       node.current_rank

\* C31: rank is changed only by the ledger.  add_node creates the node with
\* current_rank 0, and add_tree, update_tree, update_node,
\* update_node_position, add_connection, remove_connection,
\* update_connection and set_mode never change the current_rank of any
\* existing node nor point_pool.spent.
C31_RankOnlyByLedger ==
    (last.op \in OutsideLedger) =>
       /\ RanksAndSpentKept(last.before, app_state)
       /\ (last.op = "add_node" /\ ~last.same_object) =>
             /\ ~BeforeHasNode
             /\ has_node(app_state, last.tree_id, last.node_id)
             /\ find_node(app_state, last.tree_id, last.node_id).current_rank = 0

\* update_node was given a current_rank that the node does not have, and
\* returned a new state
C31_Witness ==
    /\ last.op = "update_node"
    /\ "current_rank" \in DOMAIN last.arg
    /\ BeforeHasNode
    /\ BeforeNode.current_rank # last.arg.current_rank
    /\ ~last.same_object

\* C32: reset.  reset_tree on an existing tree sets current_rank of every
\* node of that tree to 0 and point_pool.spent to 0, leaves total, max_rank,
\* cost_per_rank and all connections unchanged, succeeds even when
\* allow_refunds is false, and returns the state unchanged when the tree id
\* is unknown.
C32_Reset ==
    (last.op = "reset_tree") =>
       IF has_tree(last.before, last.tree_id)
       THEN /\ ~last.same_object
            /\ \A node \in Range(AfterTree.nodes) : node.current_rank = 0
            /\ AfterTree.point_pool.spent = 0
            /\ AfterTree.point_pool.total = BeforeTree.point_pool.total
            /\ AfterTree.connections = BeforeTree.connections
            /\ Len(AfterTree.nodes) = Len(BeforeTree.nodes)
            /\ \A i \in 1..Len(BeforeTree.nodes) :
                  /\ AfterTree.nodes[i].id = BeforeTree.nodes[i].id
                  /\ AfterTree.nodes[i].max_rank = BeforeTree.nodes[i].max_rank
                  /\ AfterTree.nodes[i].cost_per_rank =
                        BeforeTree.nodes[i].cost_per_rank
       ELSE /\ last.same_object
            /\ app_state = last.before

\* reset_tree took the points off a tree of a project that forbids refunds
C32_Witness ==
    /\ last.op = "reset_tree"
    /\ has_tree(last.before, last.tree_id)
    /\ ~last.before.project.settings.allow_refunds
    /\ BeforeTree.point_pool.spent > 0
    /\ \E node \in Range(BeforeTree.nodes) : node.current_rank > 0
    /\ AfterTree.point_pool.spent = 0

----------------------------------------------------------------------------
(* Properties of play: what the click handlers of play mode allow.         *)

\* a node of the active tree was clicked in play mode
ClickedInPlay ==
    /\ last.op = "node_click"
    /\ last.before.ui_state.mode = "play"
    /\ BeforeHasNode

\* C33: structural errors block simulation.  In play mode, allocation of a
\* point on a node of a tree for which validate_tree reports an error
\* (duplicate node id, dangling connection endpoint or cycle) is rejected.
C33_ErrorsBlockSimulation ==
    (ClickedInPlay /\ validate_tree(last.before, last.tree_id).errors # <<>>)
       => app_state = last.before

\* play from a tree without points: the project is in play mode, and the
\* steps are the clicks of play mode and reset_tree
InitPlay ==
    /\ \E logics \in LogicAssignments, connections \in ConnectionSets,
          settings \in {DefaultSettings,
                        [allow_refunds |-> TRUE, cascade_refunds |-> TRUE],
                        [allow_refunds |-> FALSE, cascade_refunds |-> FALSE]},
          total \in {DefaultTotal, SmallTotal} :
          app_state = [create_initial_state(settings,
                          <<InitialTree(logics, connections, total)>>)
                          EXCEPT !.ui_state.mode = "play"]
    /\ last = Record("init", "T1", "A", app_state, NoCascade)

NextPlay ==
    \/ \E node_id \in Range(NodeIds) : NodeClick(node_id)
    \/ \E node_id \in Range(NodeIds) : NodeContextMenu(node_id)
    \/ \E tree_id \in {"T1", "T0"} : ResetTree(tree_id)

SpecPlay == InitPlay /\ [][NextPlay]_vars

\* the nodes of the tree that hold points while their prerequisites are unmet
AllocatedAndLocked(state, tree_id) ==
    {node.id : node \in
        {n \in Range(find_tree(state, tree_id).nodes) :
            n.current_rank > 0 /\ ~check_prerequisites(state, tree_id, n.id)}}

\* C34: play-mode invariant.  Starting from a tree with all ranks 0 and a
\* fixed graph, after any sequence of play-mode steps in which each
\* allocate_point is issued only when can_allocate_point allows it and each
\* refund_point only when can_refund_point allows it (plus reset_tree),
\* every node with current_rank > 0 has satisfied prerequisites, i.e. no
\* node is at once allocated and LOCKED.
C34_PlayInvariant ==
    /\ AllocatedAndLocked(app_state, "T1") = {}
    /\ \A node \in Range(find_tree(app_state, "T1").nodes) :
          node.current_rank > 0 =>
             get_node_status(app_state, "T1", node.id) # "locked"

\* a right click in play mode refunded a point, and the cascade took the
\* points of another node with it
C34_Witness ==
    /\ last.op = "node_contextmenu"
    /\ last.before.ui_state.mode = "play"
    /\ last.passes # <<>>
    /\ \E i \in 1..Len(BeforeTree.nodes) :
          /\ BeforeTree.nodes[i].id # last.node_id
          /\ BeforeTree.nodes[i].current_rank > 0
          /\ AfterTree.nodes[i].current_rank = 0

----------------------------------------------------------------------------
(* Properties of the cascade as a function of the tree.                    *)

\* the state with the nodes of its tree listed in the order p
NodesReordered(state, p) ==
    [state EXCEPT !.project.trees[1].nodes =
        [i \in 1..Len(p) |-> state.project.trees[1].nodes[p[i]]]]

\* the orders of a nodes array of length n
Orderings(n) ==
    {p \in [1..n -> 1..n] : \A i, j \in 1..n : p[i] = p[j] => i = j}

\* the nodes that apply_cascade_refunds takes from a rank > 0 to rank 0
ForcedByCascade(state, tree_id) ==
    {node.id : node \in
        {n \in Range(find_tree(state, tree_id).nodes) :
            /\ n.current_rank > 0
            /\ find_node(apply_cascade_refunds(state, tree_id), tree_id, n.id)
                  .current_rank = 0}}

\* the state that refund_point hands to apply_cascade_refunds
CascadeInput == refund_decrement(last.before, last.tree_id, last.node_id)

\* C35: the cascade result is order-independent and spares satisfied nodes.
\* The set of nodes that apply_cascade_refunds forces to rank 0 is the same
\* for every ordering of tree.nodes, and a node whose prerequisites are
\* still satisfied once all forced refunds are done (for example an OR node
\* with another valid parent) keeps its current_rank unchanged.
C35_CascadeOrderIndependent ==
    RefundWithCascade =>
       /\ app_state = apply_cascade_refunds(CascadeInput, last.tree_id)
       /\ \A p \in Orderings(Len(BeforeTree.nodes)) :
             ForcedByCascade(NodesReordered(CascadeInput, p), last.tree_id)
                = ForcedByCascade(CascadeInput, last.tree_id)
       /\ \A node \in Range(AfterTree.nodes) :
             check_prerequisites(app_state, last.tree_id, node.id) =>
                node.current_rank =
                   find_node(CascadeInput, last.tree_id, node.id).current_rank

\* the cascade forced a node to rank 0 and spared an OR node that holds
\* points: one of its parents no longer meets its connection, another does
C35_Witness ==
    /\ RefundWithCascade
    /\ ForcedByCascade(CascadeInput, last.tree_id) # {}
    /\ \E node \in Range(AfterTree.nodes) :
          /\ node.id # last.node_id
          /\ logic_or_default(node) = "OR"
          /\ node.current_rank > 0
          /\ node.current_rank = BeforeRank(node.id)
          /\ \E c \in Range(incoming_connections(AfterTree, node.id)) :
                ~is_connection_satisfied(app_state, last.tree_id, c)
          /\ \E c \in Range(incoming_connections(AfterTree, node.id)) :
                is_connection_satisfied(app_state, last.tree_id, c)

----------------------------------------------------------------------------
(* Properties of static reachability against play.                         *)

\* the nodes that check_tree_reachability lists as unreachable
Unreachable(state, tree_id) ==
    Range(check_tree_reachability(state, tree_id).unreachable)

\* C36: static reachability is optimistic with respect to live play.  On a
\* fixed graph whose connections have required_rank >= 1 and whose nodes
\* use AND, OR or SUM, starting from all ranks 0 in play mode, no sequence
\* of permitted allocations and refunds ever gives current_rank > 0 to a
\* node that check_tree_reachability lists as unreachable.
C36_ReachabilityOptimistic ==
    /\ ~check_tree_reachability(app_state, "T1").raised
    /\ \A node \in Range(find_tree(app_state, "T1").nodes) :
          node.id \in Unreachable(app_state, "T1") => node.current_rank = 0

\* a click in play mode on a node listed as unreachable was refused, though
\* the pool holds the cost, while another node holds points
C36_Witness ==
    /\ ClickedInPlay
    /\ last.node_id \in Unreachable(last.before, last.tree_id)
    /\ BeforeTree.point_pool.total - BeforeTree.point_pool.spent
          >= get_allocation_cost(BeforeNode)
    /\ app_state = last.before
    /\ \E node \in Range(BeforeTree.nodes) : node.current_rank > 0

----------------------------------------------------------------------------
(* Properties of the guards against the actions they guard.                *)

\* what the guards say about the state that the call was given
AllocateAllowed ==
    can_allocate_point(last.before, last.tree_id, last.node_id).can_allocate

RefundAllowed ==
    can_refund_point(last.before, last.tree_id, last.node_id).can_refund

\* C37: guard and action agree.  Whenever can_allocate_point returns
\* can_allocate = true, allocate_point on the same state returns a changed
\* state with that node's rank raised by 1; whenever can_refund_point
\* returns can_refund = true, refund_point on the same state returns a
\* changed state with that node's rank lowered; in edit mode
\* can_allocate_point is true exactly when allocate_point would succeed.
C37_GuardAndActionAgree ==
    /\ (last.op = "allocate_point" /\ AllocateAllowed) =>
          /\ Changed
          /\ BeforeHasNode
          /\ AfterRank(last.node_id) = BeforeRank(last.node_id) + 1
    /\ (last.op = "refund_point" /\ RefundAllowed) =>
          /\ Changed
          /\ BeforeHasNode
          /\ AfterRank(last.node_id) < BeforeRank(last.node_id)
    /\ (last.op = "allocate_point" /\ last.before.ui_state.mode = "edit") =>
          (AllocateAllowed <=> Changed)

\* allocate_point was called in play mode on a node that the guard allows,
\* in a tree that holds points already
C37_Witness ==
    /\ last.op = "allocate_point"
    /\ last.before.ui_state.mode = "play"
    /\ AllocateAllowed
    /\ BeforeTree.point_pool.spent > 0
    /\ AfterRank(last.node_id) = BeforeRank(last.node_id) + 1

----------------------------------------------------------------------------
(* Properties of the trees of a project against one another.               *)

\* C38: tree isolation.  allocate_point, refund_point (with its cascade)
\* and reset_tree applied to tree T change only the current_rank of nodes
\* of T and T's point_pool.spent; every other tree, all connections, the
\* project settings and ui_state.mode are unchanged; removing a tree
\* changes no other tree.
C38_TreeIsolation ==
    /\ (last.op \in {"allocate_point", "refund_point", "reset_tree"}) =>
          /\ OtherPartsKept
          /\ has_tree(last.before, last.tree_id) => ShapeKept
    /\ (last.op = "remove_tree") =>
          /\ app_state.project.settings = last.before.project.settings
          /\ app_state.ui_state.mode = last.before.ui_state.mode
          /\ \A i \in 1..Len(last.before.project.trees) :
                LET tree == last.before.project.trees[i]
                IN  tree.id # last.tree_id =>
                       /\ has_tree(app_state, tree.id)
                       /\ find_tree(app_state, tree.id) = tree

\* refund_point on a tree of a project with two trees: the cascade took
\* the points of a second node of that tree, and the other tree holds points
C38_Witness ==
    /\ last.op = "refund_point"
    /\ Len(last.before.project.trees) = 2
    /\ BeforeHasNode
    /\ \E tree \in Range(last.before.project.trees) :
          tree.id # last.tree_id /\ tree.point_pool.spent > 0
    /\ \E i \in 1..Len(BeforeTree.nodes) :
          /\ BeforeTree.nodes[i].id # last.node_id
          /\ BeforeTree.nodes[i].current_rank > 0
          /\ AfterTree.nodes[i].current_rank = 0

----------------------------------------------------------------------------
(* io.js: import of a project document.  A document is the parsed JSON;    *)
(* a field that it lacks is a key outside the DOMAIN of the record.  The   *)
(* documents carry metadata, settings, and trees with id, name, point_pool *)
(* and no connections, so the checks of those fields find nothing.         *)

\* the errors of validate_node, by the field they name
validate_node(node) ==
    (IF "id" \notin DOMAIN node THEN <<"id">> ELSE <<>>)
    \o (IF "name" \notin DOMAIN node THEN <<"name">> ELSE <<>>)
    \o (IF "position" \notin DOMAIN node THEN <<"position">> ELSE <<>>)
    \o (IF "max_rank" \notin DOMAIN node \/ node.max_rank < 1
        THEN <<"max_rank">> ELSE <<>>)
    \o (IF "current_rank" \notin DOMAIN node \/ node.current_rank < 0
        THEN <<"current_rank">> ELSE <<>>)
    \o (IF "cost_per_rank" \notin DOMAIN node \/ Len(node.cost_per_rank) = 0
        THEN <<"cost_per_rank">> ELSE <<>>)

\* validate_project with the validate_tree of io.js: the errors of the
\* nodes of every tree, and an error for a node id that came before
validate_project(project) ==
    LET RECURSIVE node_errors(_, _)
        node_errors(nodes, i) ==
            IF i > Len(nodes) THEN <<>>
            ELSE validate_node(nodes[i])
                 \o (IF /\ "id" \in DOMAIN nodes[i]
                        /\ \E j \in 1..(i - 1) :
                              "id" \in DOMAIN nodes[j] /\ nodes[j].id = nodes[i].id
                     THEN <<"duplicate">> ELSE <<>>)
                 \o node_errors(nodes, i + 1)
        RECURSIVE tree_errors(_)
        tree_errors(i) ==
            IF i > Len(project.trees) THEN <<>>
            ELSE node_errors(project.trees[i].nodes, 1) \o tree_errors(i + 1)
        errors == tree_errors(1)
    IN  [valid |-> errors = <<>>, errors |-> errors]

\* state is the state of the result when success is true (null otherwise)
import_project(data) ==
    LET project == data.project
        validation == validate_project(project)
        initial == create_initial_state(DefaultSettings, <<>>)
    IN  IF ~validation.valid
        THEN [success |-> FALSE, state |-> initial, errors |-> validation.errors]
        ELSE [success |-> TRUE, errors |-> <<>>,
              state |->
                 [initial EXCEPT
                    !.project.settings =
                        [allow_refunds |-> project.settings.allow_refunds # FALSE,
                         cascade_refunds |-> project.settings.cascade_refunds],
                    !.project.trees = project.trees,
                    !.ui_state.active_tree_id =
                        IF Len(project.trees) > 0 THEN project.trees[1].id ELSE @]]

\* the import_project event: the state is replaced when the import succeeds.
\* The document holds one tree with two nodes: the first carries every
\* field, the second carries the fields in present, with cost_per_rank as
\* given when it is among them
ImportProject(present, cost_per_rank) ==
    LET full == [id |-> "B", name |-> "b", position |-> [x |-> 0, y |-> 0],
                 max_rank |-> 2, current_rank |-> 0,
                 cost_per_rank |-> cost_per_rank,
                 prerequisite_logic |-> "OR", prerequisite_threshold |-> 2]
        node == [key \in present |-> full[key]]
        tree == [id |-> "T1", name |-> "t",
                 point_pool |-> [total |-> DefaultTotal, spent |-> 0],
                 nodes |-> <<[full EXCEPT !.id = "A", !.cost_per_rank = <<1>>], node>>,
                 connections |-> <<>>]
        data == [version |-> "1.0.0",
                 project |-> [metadata |-> [name |-> "p"],
                              settings |-> DefaultSettings,
                              trees |-> <<tree>>]]
        imported == import_project(data)
    IN  /\ app_state' = IF imported.success THEN imported.state ELSE app_state
        /\ last' = [op |-> "import_project", node |-> node, before |-> app_state,
                    success |-> imported.success, errors |-> imported.errors]

NextImport ==
    \E present \in SUBSET {"id", "name", "position", "max_rank", "current_rank",
                           "cost_per_rank", "prerequisite_logic",
                           "prerequisite_threshold"},
       cost_per_rank \in {<<1, 2>>, <<>>} :
       ImportProject(present, cost_per_rank)

SpecImport == InitBuild /\ [][NextImport]_vars

\* the node of the document as the creation rules complete it
Defaulted(node) ==
    [key \in DOMAIN node \cup {"max_rank", "current_rank", "position",
                               "prerequisite_logic", "prerequisite_threshold"} |->
        IF key \in DOMAIN node THEN node[key]
        ELSE IF key = "position" THEN [x |-> 0, y |-> 0]
        ELSE create_node(node.id)[key]]

\* the document's node lacks none of id, name and a non-empty cost_per_rank
RequiredPresent(node) ==
    /\ {"id", "name", "cost_per_rank"} \subseteq DOMAIN node
    /\ node.cost_per_rank # <<>>

\* C39: import defaulting.  import_project accepts a document in which a
\* node lacks optional fields (max_rank, current_rank, position,
\* prerequisite_logic, prerequisite_threshold) and fills them with the
\* creation defaults; it rejects the document only when a required identity
\* field (id, name) is missing or cost_per_rank is missing or empty.
C39_ImportDefaulting ==
    (last.op = "import_project" /\ RequiredPresent(last.node)) =>
       /\ last.success
       /\ \E node \in Range(find_tree(app_state, "T1").nodes) :
             node = Defaulted(last.node)

====
